---- MODULE Spec2Model ----
(***************************************************************************)
(* bytelox: scanner -> single-pass compiler -> stack VM.                   *)
(*                                                                         *)
(* Source text is a sequence of one-character strings.  Indices into the   *)
(* source (Scanner.current, Token.start) are 0-based as in the Rust code;  *)
(* CharAt translates to the 1-based TLA+ sequence.  A Rust panic (index    *)
(* out of bounds, unwrap of None, panic!, unreachable!) is a deterministic *)
(* abort of the call: every operator that can panic returns a record with  *)
(* a `panic` flag and callers propagate it.                                *)
(***************************************************************************)
EXTENDS Integers, Sequences, FiniteSets, TLC

(***************************************************************************)
(* Characters                                                              *)
(***************************************************************************)
\* the '\0' sentinel returned by peek / peek_next / prev
NUL == "NUL"

Digits == {"0", "1", "2", "3", "4", "5", "6", "7", "8", "9"}

Lower ==
  {"a", "b", "c", "d", "e", "f", "g", "h", "i", "j", "k", "l", "m",
   "n", "o", "p", "q", "r", "s", "t", "u", "v", "w", "x", "y", "z"}

Upper ==
  {"A", "B", "C", "D", "E", "F", "G", "H", "I", "J", "K", "L", "M",
   "N", "O", "P", "Q", "R", "S", "T", "U", "V", "W", "X", "Y", "Z"}

is_ascii_digit(c) == c \in Digits

is_ascii_alphanumeric(c) == c \in Digits \cup Lower \cup Upper

DigitVal(c) ==
  CASE c = "0" -> 0 [] c = "1" -> 1 [] c = "2" -> 2 [] c = "3" -> 3
    [] c = "4" -> 4 [] c = "5" -> 5 [] c = "6" -> 6 [] c = "7" -> 7
    [] c = "8" -> 8 [] c = "9" -> 9

(***************************************************************************)
(* f64, as far as the programs here need it: a rational num/den in lowest  *)
(* terms with den > 0, or den = 0 for the IEEE specials (num = 1: +inf,    *)
(* num = -1: -inf, num = 0: NaN).  Rounding and the sign of zero are not   *)
(* represented.                                                            *)
(***************************************************************************)
Abs(n) == IF n < 0 THEN -n ELSE n

Sign(n) == IF n < 0 THEN -1 ELSE IF n > 0 THEN 1 ELSE 0

RECURSIVE Gcd(_, _)
Gcd(a, b) == IF b = 0 THEN a ELSE Gcd(b, a % b)

F64(n, d) ==
  IF d = 0 THEN [num |-> Sign(n), den |-> 0]
  ELSE LET Reduced(g) ==
             [num |-> Sign(d) * (n \div g), den |-> Abs(d) \div g]
       IN  Reduced(Gcd(Abs(n), Abs(d)))

IsNaN(a) == a.den = 0 /\ a.num = 0

IsInf(a) == a.den = 0 /\ a.num # 0

FNeg(a) == [num |-> -a.num, den |-> a.den]

FAdd(a, b) ==
  IF IsNaN(a) \/ IsNaN(b) THEN F64(0, 0)
  ELSE IF IsInf(a) THEN (IF IsInf(b) /\ b.num # a.num THEN F64(0, 0) ELSE a)
  ELSE IF IsInf(b) THEN b
  ELSE F64(a.num * b.den + b.num * a.den, a.den * b.den)

FSub(a, b) == FAdd(a, FNeg(b))

FMul(a, b) ==
  IF IsNaN(a) \/ IsNaN(b) THEN F64(0, 0)
  ELSE IF IsInf(a) \/ IsInf(b) THEN F64(Sign(a.num) * Sign(b.num), 0)
  ELSE F64(a.num * b.num, a.den * b.den)

FDiv(a, b) ==
  IF IsNaN(a) \/ IsNaN(b) THEN F64(0, 0)
  ELSE IF IsInf(a) THEN (IF IsInf(b) THEN F64(0, 0)
                         ELSE F64(IF b.num < 0 THEN -a.num ELSE a.num, 0))
  ELSE IF IsInf(b) THEN F64(0, 1)
  ELSE IF b.num = 0 THEN F64(Sign(a.num), 0)
  ELSE F64(a.num * b.den, a.den * b.num)

FEq(a, b) == ~IsNaN(a) /\ ~IsNaN(b) /\ a = b

Rank(a) == IF a.den = 0 THEN a.num ELSE 0

FLt(a, b) ==
  /\ ~IsNaN(a)
  /\ ~IsNaN(b)
  /\ IF a.den = 0 \/ b.den = 0 THEN Rank(a) < Rank(b)
     ELSE a.num * b.den < b.num * a.den

\* str::parse::<f64> of <digits> or <digits>.<digits>
RECURSIVE ParseDigits(_, _, _, _, _)
ParseDigits(text, i, acc, scale, frac) ==
  IF i > Len(text) THEN F64(acc, scale)
  ELSE IF text[i] = "." THEN ParseDigits(text, i + 1, acc, scale, TRUE)
  ELSE ParseDigits(text, i + 1, 10 * acc + DigitVal(text[i]),
                   IF frac THEN 10 * scale ELSE scale, frac)

parse_f64(text) == ParseDigits(text, 1, 0, 1, FALSE)

(***************************************************************************)
(* Scanner (scanner.rs)                                                    *)
(***************************************************************************)
KW_and == <<"a", "n", "d">>

KW_class == <<"c", "l", "a", "s", "s">>

KW_else == <<"e", "l", "s", "e">>

KW_for == <<"f", "o", "r">>

KW_fun == <<"f", "u", "n">>

KW_false == <<"f", "a", "l", "s", "e">>

KW_if == <<"i", "f">>

KW_nil == <<"n", "i", "l">>

KW_or == <<"o", "r">>

KW_print == <<"p", "r", "i", "n", "t">>

KW_return == <<"r", "e", "t", "u", "r", "n">>

KW_super == <<"s", "u", "p", "e", "r">>

KW_this == <<"t", "h", "i", "s">>

KW_true == <<"t", "r", "u", "e">>

KW_var == <<"v", "a", "r">>

KW_while == <<"w", "h", "i", "l", "e">>

\* Scanner::new: the first-letter bucketed keyword table
KeywordTable ==
  ("a" :> <<KW_and>>) @@ ("c" :> <<KW_class>>) @@ ("e" :> <<KW_else>>) @@
  ("f" :> <<KW_for, KW_fun, KW_false>>) @@ ("i" :> <<KW_if>>) @@
  ("n" :> <<KW_nil>>) @@ ("o" :> <<KW_or>>) @@ ("p" :> <<KW_print>>) @@
  ("r" :> <<KW_return>>) @@ ("s" :> <<KW_super>>) @@
  ("t" :> <<KW_this, KW_true>>) @@ ("v" :> <<KW_var>>) @@ ("w" :> <<KW_while>>)

\* impl From<&str> for TokenType, on the keywords
KeywordType(kw) ==
  CASE kw = KW_and -> "And" []
    kw = KW_class -> "Class" []
    kw = KW_else -> "Else" []
    kw = KW_for -> "For" []
    kw = KW_fun -> "Fun" []
    kw = KW_false -> "False" []
    kw = KW_if -> "If" []
    kw = KW_nil -> "Nil" []
    kw = KW_or -> "Or" []
    kw = KW_print -> "Print" []
    kw = KW_return -> "Return" []
    kw = KW_super -> "Super" []
    kw = KW_this -> "This" []
    kw = KW_true -> "True" []
    kw = KW_var -> "Var" []
    kw = KW_while -> "While"

\* impl From<char> for TokenType
CharType(c) ==
  CASE c = "(" -> "LeftParen" [] c = ")" -> "RightParen"
    [] c = "{" -> "LeftBrace" [] c = "}" -> "RightBrace"
    [] c = "," -> "Comma" [] c = "." -> "Dot" [] c = "-" -> "Minus"
    [] c = "+" -> "Plus" [] c = ";" -> "Semicolon" [] c = "/" -> "Slash"
    [] c = "*" -> "Star" [] c = "!" -> "Bang" [] c = "=" -> "Equal"
    [] c = ">" -> "Greater" [] c = "<" -> "Less"

\* impl From<&str> for TokenType, on format!("{}=", c)
RelEqType(c) ==
  CASE c = "!" -> "BangEqual" [] c = "=" -> "EqualEqual"
    [] c = ">" -> "GreaterEqual" [] c = "<" -> "LessEqual"

\* Option<TokenValue>: kind None | Identifier | String | Error | Number
NoValue == [kind |-> "None", text |-> <<>>, msg |-> "", num |-> F64(0, 1)]

IdentifierValue(text) == [NoValue EXCEPT !.kind = "Identifier", !.text = text]

StringValue(text) == [NoValue EXCEPT !.kind = "String", !.text = text]

ErrorValue(msg) == [NoValue EXCEPT !.kind = "Error", !.msg = msg]

NumberValue(num) == [NoValue EXCEPT !.kind = "Number", !.num = num]

Token(type, value, start, length, line) ==
  [type |-> type, value |-> value, start |-> start, length |-> length,
   line |-> line]

\* #[derive(Default)] Scanner
DefaultScanner ==
  [source |-> <<>>, current |-> 0, line |-> 0,
   identifiers |-> [c \in {} |-> <<>>]]

NewScanner(source) ==
  [source |-> source, current |-> 0, line |-> 1, identifiers |-> KeywordTable]

\* source[i] with a 0-based index i < source.len()
CharAt(s, i) == s.source[i + 1]

InBounds(s, i) == i >= 0 /\ i < Len(s.source)

is_at_end(s) == s.current >= Len(s.source)

peek(s) == IF s.current < Len(s.source) THEN CharAt(s, s.current) ELSE NUL

\* peek_next indexes source[current + 1] whenever current < len
peek_next_panics(s) == ~is_at_end(s) /\ ~InBounds(s, s.current + 1)

peek_next(s) == IF is_at_end(s) THEN NUL ELSE CharAt(s, s.current + 1)

prev(s) == IF s.current = 0 THEN NUL ELSE CharAt(s, s.current - 1)

\* Scanner::advance: the character read is peek(s) of the state before
scan_advance(s) == [s EXCEPT !.current = s.current + 1]

saturating_sub1(n) == IF n = 0 THEN 0 ELSE n - 1

RECURSIVE skip_whitespace(_)
skip_whitespace(s) ==
  LET c == peek(s)
  IN  IF c \in {" ", "\r", "\t"} THEN skip_whitespace(scan_advance(s))
      ELSE IF c = "\n"
        THEN skip_whitespace([scan_advance(s) EXCEPT !.line = s.line + 1])
      ELSE s

Scanned(s, tok) == [s |-> s, tok |-> tok, panic |-> FALSE]

ScanPanic(s) ==
  [s |-> s, tok |-> Token("Eof", NoValue, 0, 0, 0), panic |-> TRUE]

\* Scanner::match
scan_match(s, expected) ==
  IF is_at_end(s) \/ peek(s) # expected THEN [s |-> s, ok |-> FALSE]
  ELSE [s |-> [s EXCEPT !.current = s.current + 1], ok |-> TRUE]

relational(s, c) ==
  LET Tok(m) ==
        IF m.ok
          THEN Scanned(m.s,
                       Token(RelEqType(c), NoValue, m.s.current, 2, m.s.line))
          ELSE Scanned(m.s,
                       Token(CharType(c), NoValue, m.s.current, 1, m.s.line))
  IN  Tok(scan_match(s, "="))

RECURSIVE KeywordMatches(_, _, _, _)
KeywordMatches(s, keyword, temp_index, k) ==
  IF k > Len(keyword) THEN TRUE
  ELSE IF CharAt(s, temp_index) # keyword[k] THEN FALSE
  ELSE KeywordMatches(s, keyword, temp_index + 1, k + 1)

check_keyword(s, keyword) ==
  IF s.current + Len(keyword) >= Len(s.source) THEN FALSE
  ELSE KeywordMatches(s, keyword, saturating_sub1(s.current), 1)

\* index of the first keyword of the bucket that check_keyword accepts, or 0
RECURSIVE FirstKeyword(_, _, _)
FirstKeyword(s, potential_matches, k) ==
  IF k > Len(potential_matches) THEN 0
  ELSE IF check_keyword(s, potential_matches[k]) THEN k
  ELSE FirstKeyword(s, potential_matches, k + 1)

\* the loop of Scanner::identifier: advance() until a non-alphanumeric
\* character has been read (and consumed)
RECURSIVE IdentifierLoop(_, _)
IdentifierLoop(s, text) ==
  IF is_ascii_alphanumeric(peek(s))
    THEN IdentifierLoop(scan_advance(s), Append(text, peek(s)))
    ELSE [s |-> scan_advance(s), text |-> text]

identifier(s0, c) ==
  LET Generic(r) ==
        Scanned(r.s, Token("Identifier", IdentifierValue(r.text),
                           saturating_sub1(s0.current), Len(r.text), r.s.line))
      Keyword(s, keyword) ==
        Scanned([s EXCEPT !.current = s.current + Len(keyword)],
                Token(KeywordType(keyword), NoValue,
                      saturating_sub1(s.current), Len(keyword), s.line))
      Choose(s, potential_matches, k) ==
        IF k # 0 THEN Keyword(s, potential_matches[k])
        ELSE Generic(IdentifierLoop(s, <<prev(s)>>))
      Bucket(s) ==
        Choose(s, s.identifiers[c], FirstKeyword(s, s.identifiers[c], 1))
  IN  Bucket(IF c \in DOMAIN s0.identifiers THEN s0
             ELSE [s0 EXCEPT !.identifiers = s0.identifiers @@ (c :> <<>>)])

RECURSIVE DigitLoop(_, _)
DigitLoop(s, text) ==
  IF is_ascii_digit(peek(s))
    THEN DigitLoop(scan_advance(s), Append(text, peek(s)))
    ELSE [s |-> s, text |-> text]

number(s) ==
  LET Tok(r) ==
        Scanned(r.s, Token("Number", NumberValue(parse_f64(r.text)),
                           saturating_sub1(s.current), Len(r.text), r.s.line))
      Fraction(int) ==
        IF peek(int.s) = "." /\ peek_next_panics(int.s) THEN ScanPanic(int.s)
        ELSE IF peek(int.s) = "." /\ is_ascii_digit(peek_next(int.s))
          THEN Tok(DigitLoop(scan_advance(int.s), Append(int.text, ".")))
        ELSE Tok(int)
  IN  Fraction(DigitLoop(s, <<prev(s)>>))

RECURSIVE StringLoop(_, _)
StringLoop(s, text) ==
  IF peek(s) # "\"" /\ ~is_at_end(s)
    THEN StringLoop([scan_advance(s) EXCEPT
                       !.line = IF peek(s) = "\n" THEN s.line + 1 ELSE s.line],
                    Append(text, peek(s)))
    ELSE [s |-> s, text |-> text]

UnterminatedLen == 19

string(s) ==
  LET Closed(s1, text) ==
        Scanned(s1, Token("String", StringValue(text), s.current - 1,
                          Len(text) + 2, s1.line))
      Tok(r) ==
        IF is_at_end(r.s)
          THEN Scanned(r.s, Token("Error", ErrorValue("Unterminated string"),
                                  s.current - 1, UnterminatedLen, r.s.line))
          ELSE Closed(scan_advance(r.s), r.text)
  IN  Tok(StringLoop(s, <<>>))

RECURSIVE CommentLoop(_, _)
CommentLoop(s, length) ==
  IF peek(s) # "\n" /\ ~is_at_end(s)
    THEN CommentLoop(scan_advance(s), length + 1)
    ELSE [s |-> s, length |-> length]

slash(s) ==
  LET Comment(r) ==
        Scanned(r.s, Token("Comment", NoValue, r.s.current, r.length,
                           r.s.line))
  IN  IF peek_next_panics(s) THEN ScanPanic(s)
      ELSE IF peek_next(s) = "/" THEN Comment(CommentLoop(s, 1))
      ELSE Scanned(s, Token("Slash", NoValue, s.current, 1, s.line))

scan_token(s0) ==
  LET Dispatch(c, s) ==
        IF c \in {"(", ")", "{", "}", ";", ".", ",", "-", "+", "*"}
          THEN Scanned(s, Token(CharType(c), NoValue, s.current, 1, s.line))
        ELSE IF c = "/" THEN slash(s)
        ELSE IF c \in {"!", "=", "<", ">"} THEN relational(s, c)
        ELSE IF c = "\"" THEN string(s)
        ELSE IF is_ascii_digit(c) THEN number(s)
        ELSE IF c \in Lower \cup Upper \cup {"_"} THEN identifier(s, c)
        ELSE Scanned(s, Token("Error", ErrorValue("Unknown Token " \o c),
                              s.current, 1, s.line))
      Start(sw) ==
        IF is_at_end(sw)
          THEN Scanned(sw, Token("Eof", NoValue, sw.current, 1, sw.line))
          ELSE Dispatch(peek(sw), scan_advance(sw))
  IN  Start(skip_whitespace(s0))

(***************************************************************************)
(* Values and instructions (value.rs, opcode.rs)                           *)
(***************************************************************************)
NilValue == [type |-> "Nil", num |-> F64(0, 1), bool |-> FALSE, str |-> <<>>]

NumberOf(num) == [NilValue EXCEPT !.type = "Number", !.num = num]

BoolOf(b) == [NilValue EXCEPT !.type = "Bool", !.bool = b]

StringOf(str) == [NilValue EXCEPT !.type = "String", !.str = str]

is_falsey(v) == (v.type = "Bool" /\ v.bool = FALSE) \/ v.type = "Nil"

\* zero-operand instruction
Op(op) == [op |-> op, value |-> NilValue, name |-> <<>>]

Constant(value) == [Op("Constant") EXCEPT !.value = value]

DefineGlobal(name) == [Op("DefineGlobal") EXCEPT !.name = name]

GetGlobal(name) == [Op("GetGlobal") EXCEPT !.name = name]

SetGlobal(name) == [Op("SetGlobal") EXCEPT !.name = name]

(***************************************************************************)
(* Compiler (compiler.rs)                                                  *)
(***************************************************************************)
PrecNone == 0

PrecAssignment == 1

PrecOr == 2

PrecAnd == 3

PrecEquality == 4

PrecComparison == 5

PrecTerm == 6

PrecFactor == 7

PrecUnary == 8

PrecCall == 9

PrecPrimary == 10

PrecTop == 11

\* impl Add<u8> for Precedence, through From<u8>
PrecedenceAdd(precedence, other) ==
  IF precedence + other \in PrecNone..PrecTop THEN precedence + other
  ELSE PrecNone

ParseRule(prefix, infix, precedence) ==
  [prefix |-> prefix, infix |-> infix, precedence |-> precedence]

\* get_rule with `*` and `/` at the precedence of `+` and `-`
get_rule_FlatArith(token_type) ==
  CASE token_type = "LeftParen" -> ParseRule("Grouping", "None", PrecNone)
    [] token_type = "Minus" -> ParseRule("Unary", "Binary", PrecTerm)
    [] token_type = "Plus" -> ParseRule("None", "Binary", PrecTerm)
    [] token_type = "Slash" -> ParseRule("None", "Binary", PrecTerm)
    [] token_type = "Star" -> ParseRule("None", "Binary", PrecTerm)
    [] token_type = "Number" -> ParseRule("Number", "None", PrecNone)
    [] token_type \in {"False", "True", "Nil"} ->
         ParseRule("Literal", "None", PrecNone)
    [] token_type = "Bang" -> ParseRule("Unary", "None", PrecNone)
    [] token_type \in {"BangEqual", "EqualEqual"} ->
         ParseRule("None", "Binary", PrecEquality)
    [] token_type \in {"Greater", "GreaterEqual", "Less", "LessEqual"} ->
         ParseRule("None", "Binary", PrecComparison)
    [] token_type = "String" -> ParseRule("String", "None", PrecNone)
    [] token_type = "Identifier" -> ParseRule("Variable", "None", PrecNone)
    [] OTHER -> ParseRule("None", "None", PrecNone)

\* RULES.get(token_type).cloned().unwrap_or_default()
get_rule(token_type) ==
  CASE token_type = "LeftParen" -> ParseRule("Grouping", "None", PrecNone)
    [] token_type = "Minus" -> ParseRule("Unary", "Binary", PrecTerm)
    [] token_type = "Plus" -> ParseRule("None", "Binary", PrecTerm)
    [] token_type = "Slash" -> ParseRule("None", "Binary", PrecFactor)
    [] token_type = "Star" -> ParseRule("None", "Binary", PrecFactor)
    [] token_type = "Number" -> ParseRule("Number", "None", PrecNone)
    [] token_type \in {"False", "True", "Nil"} ->
         ParseRule("Literal", "None", PrecNone)
    [] token_type = "Bang" -> ParseRule("Unary", "None", PrecNone)
    [] token_type \in {"BangEqual", "EqualEqual"} ->
         ParseRule("None", "Binary", PrecEquality)
    [] token_type \in {"Greater", "GreaterEqual", "Less", "LessEqual"} ->
         ParseRule("None", "Binary", PrecComparison)
    [] token_type = "String" -> ParseRule("String", "None", PrecNone)
    [] token_type = "Identifier" -> ParseRule("Variable", "None", PrecNone)
    [] OTHER -> ParseRule("None", "None", PrecNone)

\* Option<Token>::None
NoToken == Token("None", NoValue, 0, 0, 0)

\* #[derive(Default)] Parser.  `stderr` is the diagnostics written by
\* error_at; `panicked` records that the call aborted with a panic and
\* `unreachable` that the panic came from an unreachable!() arm.
DefaultParser ==
  [scanner |-> DefaultScanner, previous |-> NoToken, current |-> NoToken,
   had_error |-> FALSE, panic_mode |-> FALSE, ops |-> <<>>,
   stderr |-> <<>>, panicked |-> FALSE, unreachable |-> FALSE]

Panic(p) == [p EXCEPT !.panicked = TRUE]

\* eprint!("[line {}] Error ..."): the location part and the message
Diagnostic(token, message) ==
  [line |-> token.line,
   at |-> IF token.type = "Eof" THEN "end"
          ELSE IF token.type = "Error" THEN "" ELSE "range",
   from |-> token.start, to |-> token.start + token.length,
   message |-> message]

\* error_at reporting the diagnostic without recording the error
error_at_NoFlag(p, token, message) ==
  IF p.panic_mode THEN p
  ELSE [p EXCEPT !.panic_mode = TRUE,
                 !.stderr = Append(@, Diagnostic(token, message))]

error_at(p, token, message) ==
  IF p.panic_mode THEN p
  ELSE [p EXCEPT !.panic_mode = TRUE, !.had_error = TRUE,
                 !.stderr = Append(@, Diagnostic(token, message))]

error(p, message) ==
  IF p.current = NoToken THEN p ELSE error_at(p, p.current, message)

advance(p) ==
  LET Accept(r) ==
        [p EXCEPT !.previous = p.current, !.current = r.tok, !.scanner = r.s]
      Took(r) ==
        IF r.panic THEN Panic(p)
        ELSE IF r.tok.type # "Error" THEN Accept(r)
        ELSE error(Accept(r), "found error token")
  IN  IF p.panicked THEN p ELSE Took(scan_token(p.scanner))

consume(p, token_type, message) ==
  IF p.panicked THEN p
  ELSE IF p.current # NoToken /\ p.current.type = token_type THEN advance(p)
  ELSE error(p, message)

\* self.current.as_ref().unwrap().r#type == *token_type
check(p, token_type) == p.current.type = token_type

\* Parser::match: the parser after the call; it returns check(p, token_type)
match(p, token_type) ==
  IF p.panicked THEN p
  ELSE IF p.current = NoToken THEN Panic(p)
  ELSE IF check(p, token_type) THEN advance(p) ELSE p

emit_byte(p, opcode) ==
  IF p.panicked THEN p ELSE [p EXCEPT !.ops = Append(@, opcode)]

emit_bytes(p, bytes) ==
  IF p.panicked THEN p ELSE [p EXCEPT !.ops = @ \o bytes]

emit_constant(p, value) == emit_byte(p, Constant(value))

emit_return(p) == emit_byte(p, Op("Return"))

end_compiler(p) == emit_return(p)

\* token.value.as_ref().unwrap() must be TokenValue::Identifier
identifier_constant_panics(token) == token.value.kind # "Identifier"

identifier_constant(token) == token.value.text

define_variable(p, name) == emit_byte(p, DefineGlobal(name))

number_prefix(p) ==
  IF p.previous.value.kind = "Number"
    THEN emit_constant(p, NumberOf(p.previous.value.num))
    ELSE p

string_prefix(p) ==
  IF p.previous.type = "String" /\ p.previous.value.kind = "String"
    THEN emit_constant(p, StringOf(p.previous.value.text))
    ELSE p

literal(p) ==
  LET operator_type == p.previous.type
  IN  CASE operator_type = "False" -> emit_byte(p, Op("False"))
        [] operator_type = "Nil" -> emit_byte(p, Op("Nil"))
        [] operator_type = "True" -> emit_byte(p, Op("True"))
        [] OTHER -> [Panic(p) EXCEPT !.unreachable = TRUE]

RECURSIVE parse_precedence(_, _)

expression(p) == parse_precedence(p, PrecAssignment)

grouping(p) ==
  consume(expression(p), "RightParen", "Expect ')' after expression.")

unary(p) ==
  LET Emit(p1, operator_type) ==
        CASE operator_type = "Minus" -> emit_byte(p1, Op("Negate"))
          [] operator_type = "Bang" -> emit_byte(p1, Op("Not"))
          [] OTHER -> [Panic(p1) EXCEPT !.unreachable = TRUE]
  IN  Emit(parse_precedence(p, PrecUnary), p.previous.type)

\* binary parsing its right operand at the operator's own precedence
\* (the `+ 1` left out)
binary_SamePrecedence(p) ==
  LET Emit(p1, operator_type) ==
        CASE operator_type = "Plus" -> emit_byte(p1, Op("Add"))
          [] operator_type = "Minus" -> emit_byte(p1, Op("Subtract"))
          [] operator_type = "Star" -> emit_byte(p1, Op("Multiply"))
          [] operator_type = "Slash" -> emit_byte(p1, Op("Divide"))
          [] operator_type = "BangEqual" ->
               emit_bytes(p1, <<Op("Equal"), Op("Not")>>)
          [] operator_type = "EqualEqual" -> emit_byte(p1, Op("Equal"))
          [] operator_type = "Greater" -> emit_byte(p1, Op("Greater"))
          [] operator_type = "GreaterEqual" ->
               emit_bytes(p1, <<Op("Less"), Op("Not")>>)
          [] operator_type = "Less" -> emit_byte(p1, Op("Less"))
          [] operator_type = "LessEqual" ->
               emit_bytes(p1, <<Op("Greater"), Op("Not")>>)
          [] OTHER -> [Panic(p1) EXCEPT !.unreachable = TRUE]
  IN  Emit(parse_precedence(p, get_rule(p.previous.type).precedence),
           p.previous.type)

\* binary compiling `>=` as `>` and `<=` as `<` (no desugaring)
binary_NoDesugaring(p) ==
  LET Emit(p1, operator_type) ==
        CASE operator_type = "Plus" -> emit_byte(p1, Op("Add"))
          [] operator_type = "Minus" -> emit_byte(p1, Op("Subtract"))
          [] operator_type = "Star" -> emit_byte(p1, Op("Multiply"))
          [] operator_type = "Slash" -> emit_byte(p1, Op("Divide"))
          [] operator_type = "BangEqual" ->
               emit_bytes(p1, <<Op("Equal"), Op("Not")>>)
          [] operator_type = "EqualEqual" -> emit_byte(p1, Op("Equal"))
          [] operator_type = "Greater" -> emit_byte(p1, Op("Greater"))
          [] operator_type = "GreaterEqual" -> emit_byte(p1, Op("Greater"))
          [] operator_type = "Less" -> emit_byte(p1, Op("Less"))
          [] operator_type = "LessEqual" -> emit_byte(p1, Op("Less"))
          [] OTHER -> [Panic(p1) EXCEPT !.unreachable = TRUE]
  IN  Emit(parse_precedence(
             p, PrecedenceAdd(get_rule(p.previous.type).precedence, 1)),
           p.previous.type)

binary(p) ==
  LET Emit(p1, operator_type) ==
        CASE operator_type = "Plus" -> emit_byte(p1, Op("Add"))
          [] operator_type = "Minus" -> emit_byte(p1, Op("Subtract"))
          [] operator_type = "Star" -> emit_byte(p1, Op("Multiply"))
          [] operator_type = "Slash" -> emit_byte(p1, Op("Divide"))
          [] operator_type = "BangEqual" ->
               emit_bytes(p1, <<Op("Equal"), Op("Not")>>)
          [] operator_type = "EqualEqual" -> emit_byte(p1, Op("Equal"))
          [] operator_type = "Greater" -> emit_byte(p1, Op("Greater"))
          [] operator_type = "GreaterEqual" ->
               emit_bytes(p1, <<Op("Less"), Op("Not")>>)
          [] operator_type = "Less" -> emit_byte(p1, Op("Less"))
          [] operator_type = "LessEqual" ->
               emit_bytes(p1, <<Op("Greater"), Op("Not")>>)
          [] OTHER -> [Panic(p1) EXCEPT !.unreachable = TRUE]
  IN  Emit(parse_precedence(
             p, PrecedenceAdd(get_rule(p.previous.type).precedence, 1)),
           p.previous.type)

named_variable(p, name, can_assign) ==
  IF identifier_constant_panics(name) THEN Panic(p)
  ELSE IF can_assign /\ check(p, "Equal")
    THEN emit_byte(expression(match(p, "Equal")),
                   SetGlobal(identifier_constant(name)))
  ELSE emit_byte(p, GetGlobal(identifier_constant(name)))

variable(p, can_assign) == named_variable(p, p.previous, can_assign)

\* the infix loop of parse_precedence
RECURSIVE InfixLoop(_, _, _)
InfixLoop(p, precedence, can_assign) ==
  LET Target(p1) ==
        IF can_assign /\ check(p1, "Equal")
          THEN error(match(p1, "Equal"), "Invalid assignment target.")
          ELSE p1
      Infix(p2, infix_rule) ==
        IF p2.panicked THEN p2
        ELSE IF infix_rule = "Binary" THEN binary(p2)
        ELSE [Panic(p2) EXCEPT !.unreachable = TRUE]
      Body(p1) == Infix(Target(p1), get_rule(p1.previous.type).infix)
  IN  IF p.panicked THEN p
      ELSE IF p.current = NoToken THEN Panic(p)
      ELSE IF precedence <= get_rule(p.current.type).precedence
        THEN InfixLoop(Body(advance(p)), precedence, can_assign)
      ELSE p

parse_precedence(p, precedence) ==
  LET Prefix(p1, prefix_rule, can_assign) ==
        IF p1.panicked THEN p1
        ELSE IF p1.previous = NoToken THEN Panic(p1)
        ELSE CASE prefix_rule = "Grouping" -> grouping(p1)
               [] prefix_rule = "Unary" -> unary(p1)
               [] prefix_rule = "Number" -> number_prefix(p1)
               [] prefix_rule = "Literal" -> literal(p1)
               [] prefix_rule = "String" -> string_prefix(p1)
               [] prefix_rule = "None" -> error(p1, "Expected expression")
               [] prefix_rule = "Variable" -> variable(p1, can_assign)
      Advanced(p1) ==
        InfixLoop(Prefix(p1, get_rule(p1.previous.type).prefix,
                         precedence <= PrecAssignment),
                  precedence, precedence <= PrecAssignment)
  IN  IF p.panicked THEN p ELSE Advanced(advance(p))

print_statement(p) ==
  emit_byte(consume(expression(p), "Semicolon", "Expect ';' after value."),
            Op("Print"))

expression_statement(p) ==
  emit_byte(consume(expression(p), "Semicolon",
                    "Expect ';' after expression."),
            Op("Pop"))

statement(p) ==
  IF p.panicked THEN p
  ELSE IF check(p, "Print") THEN print_statement(match(p, "Print"))
  ELSE expression_statement(p)

\* consume(Identifier), then identifier_constant(previous)
parse_variable(p, error_message) ==
  LET Named(p1) ==
        IF p1.panicked THEN [p |-> p1, name |-> <<>>]
        ELSE IF p1.previous = NoToken
                  \/ identifier_constant_panics(p1.previous)
          THEN [p |-> Panic(p1), name |-> <<>>]
        ELSE [p |-> p1, name |-> identifier_constant(p1.previous)]
  IN  Named(consume(p, "Identifier", error_message))

var_declaration(p) ==
  LET Initializer(p1) ==
        IF p1.panicked THEN p1
        ELSE IF check(p1, "Equal") THEN expression(match(p1, "Equal"))
        ELSE emit_byte(p1, Op("Nil"))
      Define(global) ==
        define_variable(
          consume(Initializer(global.p), "Semicolon",
                  "Expect ';' after variable declaration."),
          global.name)
  IN  Define(parse_variable(p, "Expect variable name."))

SyncKeywords ==
  {"Class", "Fun", "Var", "For", "If", "While", "Print", "Return"}

\* the loop of synchronize
RECURSIVE SynchronizeLoop(_)
SynchronizeLoop(p) ==
  IF p.panicked THEN p
  ELSE IF p.current = NoToken THEN Panic(p)
  ELSE IF p.current.type # "Eof"
    THEN IF p.previous = NoToken THEN Panic(p)
         ELSE IF p.previous.type = "Semicolon" THEN p
         ELSE IF p.current.type \in SyncKeywords THEN p
         ELSE SynchronizeLoop(advance(p))
    ELSE p

\* the tests that end the loop of synchronize
SynchronizeReturns(p) ==
  \/ p.current.type = "Eof"
  \/ p.previous.type = "Semicolon"
  \/ p.current.type \in SyncKeywords

synchronize_iteration_NeverAdvances(p) == p

\* one iteration of the loop of synchronize
synchronize_iteration(p) ==
  IF SynchronizeReturns(p) THEN p ELSE advance(p)

synchronize(p) == SynchronizeLoop([p EXCEPT !.panic_mode = FALSE])

\* the first statement of declaration: a variable declaration or a statement
DeclarationBody(p) ==
  IF p.panicked THEN p
  ELSE IF check(p, "Var") THEN var_declaration(match(p, "Var"))
  ELSE statement(p)

declaration(p) ==
  LET Recover(p1) ==
        IF p1.panicked THEN p1
        ELSE IF p1.panic_mode THEN synchronize(p1)
        ELSE p1
  IN  Recover(DeclarationBody(p))

\* Scanner::input is called by Compiler::compile and is not part of the
\* sources at hand; following the specification ("re-scanning requires a
\* fresh Lexer over the same source") it makes the scanner a fresh one over
\* the given text.
input(scanner, source) == NewScanner(source)

\* while !self.parser.match(&TokenType::Eof) { self.parser.declaration(); }
RECURSIVE DeclarationLoop(_)
DeclarationLoop(p) ==
  IF p.panicked THEN p
  ELSE IF p.current = NoToken THEN Panic(p)
  ELSE IF check(p, "Eof") THEN match(p, "Eof")
  ELSE DeclarationLoop(declaration(p))

\* Compiler::compile: the parser afterwards and the value returned
\* ("Ok" with the instruction sequence, "Err" for Err(VMError::CompileTime),
\* "Panic" when the call aborts)
compile(parser, source) ==
  LET Returned(p) ==
        [parser |-> p,
         result |-> IF p.panicked THEN "Panic"
                    ELSE IF p.had_error THEN "Err" ELSE "Ok",
         ops |-> IF p.panicked \/ p.had_error THEN <<>> ELSE p.ops]
  IN  Returned(end_compiler(DeclarationLoop(advance(
        [parser EXCEPT !.scanner = input(parser.scanner, source)]))))

(***************************************************************************)
(* #[derive(PartialEq, PartialOrd)] for Value (value.rs)                   *)
(***************************************************************************)
\* the printable ASCII characters in code order, from ' ' (32) to '~' (126);
\* the backtick (96) is written BACKTICK
Ascii ==
  <<" ", "!", "\"", "#", "$", "%", "&", "'", "(", ")", "*", "+", ",", "-",
    ".", "/", "0", "1", "2", "3", "4", "5", "6", "7", "8", "9", ":", ";",
    "<", "=", ">", "?", "@", "A", "B", "C", "D", "E", "F", "G", "H", "I",
    "J", "K", "L", "M", "N", "O", "P", "Q", "R", "S", "T", "U", "V", "W",
    "X", "Y", "Z", "[", "\\", "]", "^", "_", "BACKTICK", "a", "b", "c", "d", "e",
    "f", "g", "h", "i", "j", "k", "l", "m", "n", "o", "p", "q", "r", "s",
    "t", "u", "v", "w", "x", "y", "z", "{", "|", "}", "~">>

CharCode(c) ==
  IF c = "\t" THEN 9 ELSE IF c = "\n" THEN 10 ELSE IF c = "\r" THEN 13
  ELSE 31 + (CHOOSE i \in 1..Len(Ascii) : Ascii[i] = c)

\* String's Ord: lexicographic on the bytes; -1 less, 0 equal, 1 greater
RECURSIVE StrCmp(_, _, _)
StrCmp(a, b, i) ==
  IF i > Len(a) /\ i > Len(b) THEN 0
  ELSE IF i > Len(a) THEN -1
  ELSE IF i > Len(b) THEN 1
  ELSE IF CharCode(a[i]) < CharCode(b[i]) THEN -1
  ELSE IF CharCode(a[i]) > CharCode(b[i]) THEN 1
  ELSE StrCmp(a, b, i + 1)

\* position of the variant in the enum declaration
VariantIndex(v) ==
  CASE v.type = "Number" -> 0 [] v.type = "Bool" -> 1
    [] v.type = "Nil" -> 2 [] v.type = "String" -> 3

BoolRank(b) == IF b THEN 1 ELSE 0

\* derived PartialEq: same variant and equal payload
ValueEq(a, b) ==
  /\ a.type = b.type
  /\ CASE a.type = "Number" -> FEq(a.num, b.num)
       [] a.type = "Bool" -> a.bool = b.bool
       [] a.type = "Nil" -> TRUE
       [] a.type = "String" -> a.str = b.str

\* derived PartialOrd: the variants are ordered by their position in the
\* enum, and only values of the same variant compare their payloads
ValueLt(a, b) ==
  IF a.type # b.type THEN VariantIndex(a) < VariantIndex(b)
  ELSE CASE a.type = "Number" -> FLt(a.num, b.num)
         [] a.type = "Bool" -> BoolRank(a.bool) < BoolRank(b.bool)
         [] a.type = "Nil" -> FALSE
         [] a.type = "String" -> StrCmp(a.str, b.str, 1) < 0

ValueGt(a, b) == ValueLt(b, a)

(***************************************************************************)
(* Source texts given to VM::interpret                                     *)
(***************************************************************************)
\* var x = 10; print x;
SrcVarPrintTight ==
  <<"v", "a", "r", " ", "x", " ", "=", " ", "1", "0", ";", " ", "p", "r",
    "i", "n", "t", " ", "x", ";">>

\* var x = 10 ; print x ;
SrcVarPrint ==
  <<"v", "a", "r", " ", "x", " ", "=", " ", "1", "0", " ", ";", " ", "p",
    "r", "i", "n", "t", " ", "x", " ", ";">>

\* -true;
SrcNegateTrueTight ==
  <<"-", "t", "r", "u", "e", ";">>

\* -true ;
SrcNegateTrue ==
  <<"-", "t", "r", "u", "e", " ", ";">>

\* print -true ;
SrcPrintNegateTrue ==
  <<"p", "r", "i", "n", "t", " ", "-", "t", "r", "u", "e", " ", ";">>

\* print 1 + nil ;
SrcPrintAddNil ==
  <<"p", "r", "i", "n", "t", " ", "1", " ", "+", " ", "n", "i", "l", " ",
    ";">>

\* 1 + true ;
SrcAddTrue ==
  <<"1", " ", "+", " ", "t", "r", "u", "e", " ", ";">>

\* print "a" - "b" ;
SrcSubStrings ==
  <<"p", "r", "i", "n", "t", " ", "\"", "a", "\"", " ", "-", " ", "\"",
    "b", "\"", " ", ";">>

\* var 1;
SrcVarNumber ==
  <<"v", "a", "r", " ", "1", ";">>

\* print 1 < true ;
SrcPrintLess ==
  <<"p", "r", "i", "n", "t", " ", "1", " ", "<", " ", "t", "r", "u", "e",
    " ", ";">>

\* print nil > 1 ;
SrcPrintGreater ==
  <<"p", "r", "i", "n", "t", " ", "n", "i", "l", " ", ">", " ", "1", " ",
    ";">>

\* print 1 == nil ;
SrcPrintEqual ==
  <<"p", "r", "i", "n", "t", " ", "1", " ", "=", "=", " ", "n", "i", "l",
    " ", ";">>

\* var x = 1;
SrcVarOne ==
  <<"v", "a", "r", " ", "x", " ", "=", " ", "1", ";">>

\* print x;
SrcPrintXTight ==
  <<"p", "r", "i", "n", "t", " ", "x", ";">>

\* print x ;
SrcPrintX ==
  <<"p", "r", "i", "n", "t", " ", "x", " ", ";">>

\* x = 2 ;
SrcAssignX ==
  <<"x", " ", "=", " ", "2", " ", ";">>

\* var y = 2 * 3 / 4 ; y = !false ;
SrcArith ==
  <<"v", "a", "r", " ", "y", " ", "=", " ", "2", " ", "*", " ", "3", " ",
    "/", " ", "4", " ", ";", " ", "y", " ", "=", " ", "!", "f", "a", "l",
    "s", "e", " ", ";">>

\* a + b = c;
SrcAssignToSum ==
  <<"a", " ", "+", " ", "b", " ", "=", " ", "c", ";">>

\* 1 1 @ ; + ;
SrcSkipsErrorToken ==
  <<"1", " ", "1", " ", "@", " ", ";", " ", "+", " ", ";">>

\* var @ ;
SrcVarUnknownChar ==
  <<"v", "a", "r", " ", "@", " ", ";">>

\* print "ab
SrcUnterminated ==
  <<"p", "r", "i", "n", "t", " ", "\"", "a", "b">>

Sources ==
  {SrcVarPrintTight, SrcVarPrint, SrcNegateTrueTight, SrcNegateTrue,
    SrcPrintNegateTrue, SrcPrintAddNil, SrcAddTrue, SrcSubStrings,
    SrcVarNumber, SrcPrintLess, SrcPrintGreater, SrcPrintEqual, SrcVarOne,
    SrcPrintXTight, SrcPrintX, SrcAssignX, SrcArith,
    SrcAssignToSum,
    SrcSkipsErrorToken,
    SrcVarUnknownChar,
    SrcUnterminated}

(***************************************************************************)
(* Virtual machine (vm.rs)                                                 *)
(***************************************************************************)
\* number of interpret calls made on one VM
MaxCalls == 2

VARIABLES
  chunks,     \* VM.chunks: the instruction sequence being run
  index,      \* VM.index: the instruction pointer (0-based)
  stack,      \* VM.stack
  globals,    \* VM.globals: function from the bound names to their values
  compiler,   \* VM.compiler.parser
  compiled,   \* interpret's local `chunks`: "None", "Ok", "Err"
  pc,         \* "ready", "running" (inside run), "panicked"
  result,     \* value returned by the last interpret: "None", "Ok", "Runtime"
  stdout,     \* the values printed by Print
  rt_errors,  \* the messages passed to runtime_error by the current call
  inputs,     \* the source texts passed to interpret so far, in order
  scanner,    \* a Scanner used on its own, as by scan_tokens
  tokens      \* the tokens its scan_token calls have returned, in order

vars ==
  <<chunks, index, stack, globals, compiler, compiled, pc, result, stdout,
    rt_errors, inputs, scanner, tokens>>

\* VM::new(): Self::default()
Init ==
  /\ chunks = <<>>
  /\ index = 0
  /\ stack = <<>>
  /\ globals = [n \in {} |-> NilValue]
  /\ compiler = DefaultParser
  /\ compiled = "None"
  /\ pc = "ready"
  /\ result = "None"
  /\ stdout = <<>>
  /\ rt_errors = <<>>
  /\ inputs = <<>>
  /\ scanner = DefaultScanner
  /\ tokens = <<>>

Last(s) == s[Len(s)]

Front(s) == SubSeq(s, 1, Len(s) - 1)

\* let chunks = self.compiler.compile(source);
\* if let Ok(parsed_chunks) = chunks { self.chunks = parsed_chunks; }
Compiled(c) ==
  /\ compiler' = c.parser
  /\ compiled' = IF c.result = "Panic" THEN "None" ELSE c.result
  /\ chunks' = IF c.result = "Ok" THEN c.ops ELSE chunks
  /\ pc' = IF c.result = "Panic" THEN "panicked" ELSE "running"
  /\ UNCHANGED <<scanner, tokens>>

\* VM::interpret up to the call of run(): compile, keep the new chunks only
\* when compile returned Ok, and enter run() in either case
Interpret(source) ==
  /\ pc = "ready"
  /\ Len(inputs) < MaxCalls
  /\ Compiled(compile(compiler, source))
  /\ result' = "None"
  /\ rt_errors' = <<>>
  /\ inputs' = Append(inputs, source)
  /\ UNCHANGED <<index, stack, globals, stdout>>

\* the instruction at the pointer, inside the loop of run()
Dispatching(opname) ==
  /\ pc = "running"
  /\ index < Len(chunks)
  /\ chunks[index + 1].op = opname

\* the end of a loop iteration moving the pointer by two
NextInstruction_SkipsOne ==
  /\ index' = index + 2
  /\ UNCHANGED <<chunks, compiler, compiled, pc, result, inputs, scanner,
                 tokens>>

\* end of a loop iteration: self.index += 1
NextInstruction ==
  /\ index' = index + 1
  /\ UNCHANGED <<chunks, compiler, compiled, pc, result, inputs, scanner,
                 tokens>>

\* stack.pop().unwrap() / stack.last().unwrap() on an empty stack
VMPanic ==
  /\ pc' = "panicked"
  /\ UNCHANGED <<chunks, index, stack, globals, compiler, compiled, result,
                 stdout, rt_errors, inputs, scanner, tokens>>

\* run() returns `res` from inside the loop
Return(res) ==
  /\ pc' = "ready"
  /\ result' = res
  /\ UNCHANGED <<chunks, index, compiler, compiled, inputs, scanner, tokens>>

OpConstant ==
  /\ Dispatching("Constant")
  /\ stack' = Append(stack, chunks[index + 1].value)
  /\ NextInstruction
  /\ UNCHANGED <<globals, stdout, rt_errors>>

OpNil ==
  /\ Dispatching("Nil")
  /\ stack' = Append(stack, NilValue)
  /\ NextInstruction
  /\ UNCHANGED <<globals, stdout, rt_errors>>

OpTrue ==
  /\ Dispatching("True")
  /\ stack' = Append(stack, BoolOf(TRUE))
  /\ NextInstruction
  /\ UNCHANGED <<globals, stdout, rt_errors>>

OpFalse ==
  /\ Dispatching("False")
  /\ stack' = Append(stack, BoolOf(FALSE))
  /\ NextInstruction
  /\ UNCHANGED <<globals, stdout, rt_errors>>

OpReturn ==
  /\ Dispatching("Return")
  /\ Return("Ok")
  /\ UNCHANGED <<stack, globals, stdout, rt_errors>>

\* a message without a variable name
Message(text) == [msg |-> text, name |-> <<>>]

\* runtime_error only reports the message (dbg!)
runtime_error(message) == rt_errors' = Append(rt_errors, message)

OpNegate ==
  /\ Dispatching("Negate")
  /\ IF stack = <<>> THEN VMPanic
     ELSE /\ IF Last(stack).type = "Number"
               THEN /\ stack' = Append(Front(stack),
                                       NumberOf(FNeg(Last(stack).num)))
                    /\ UNCHANGED rt_errors
               ELSE /\ stack' = Front(stack)
                    /\ runtime_error(Message("Operand must be a number."))
          /\ NextInstruction
          /\ UNCHANGED <<globals, stdout>>

ArithOps == {"Add", "Subtract", "Multiply", "Divide"}

\* the (Number, Number) arm of interpret_bin_op
Arith(opname, a, b) ==
  CASE opname = "Add" -> FAdd(a, b)
    [] opname = "Subtract" -> FSub(a, b)
    [] opname = "Multiply" -> FMul(a, b)
    [] opname = "Divide" -> FDiv(a, b)

\* interpret_bin_op after both pops: the stack and whether it reported
interpret_bin_op(opname, rest, a, b) ==
  IF a.type = "Number" /\ b.type = "Number"
    THEN [stack |-> Append(rest, NumberOf(Arith(opname, a.num, b.num))),
          failed |-> FALSE]
  ELSE IF a.type = "String" /\ b.type = "String"
    THEN [stack |-> Append(rest, StringOf(a.str \o b.str)), failed |-> FALSE]
  ELSE [stack |-> rest, failed |-> TRUE]

\* the effects of interpret_bin_op on the VM
BinOpDone(r) ==
  /\ stack' = r.stack
  /\ IF r.failed
       THEN runtime_error(
              Message("Operands must be two numbers or two strings."))
       ELSE UNCHANGED rt_errors

OpArith ==
  /\ pc = "running"
  /\ index < Len(chunks)
  /\ chunks[index + 1].op \in ArithOps
  /\ IF Len(stack) < 2 THEN VMPanic
     ELSE /\ BinOpDone(interpret_bin_op(chunks[index + 1].op,
                                        SubSeq(stack, 1, Len(stack) - 2),
                                        stack[Len(stack) - 1],
                                        stack[Len(stack)]))
          /\ NextInstruction
          /\ UNCHANGED <<globals, stdout>>

OpNot ==
  /\ Dispatching("Not")
  /\ IF stack = <<>> THEN VMPanic
     ELSE /\ stack' = Append(Front(stack), BoolOf(is_falsey(Last(stack))))
          /\ NextInstruction
          /\ UNCHANGED <<globals, stdout, rt_errors>>

\* a == b, a > b, a < b
Compare(opname, a, b) ==
  CASE opname = "Equal" -> ValueEq(a, b)
    [] opname = "Greater" -> ValueGt(a, b)
    [] opname = "Less" -> ValueLt(a, b)

\* Equal / Greater / Less: pop b, pop a, push Bool(a <cmp> b)
Compared(opname) ==
  Append(SubSeq(stack, 1, Len(stack) - 2),
         BoolOf(Compare(opname, stack[Len(stack) - 1], stack[Len(stack)])))

OpEqual ==
  /\ Dispatching("Equal")
  /\ IF Len(stack) < 2 THEN VMPanic
     ELSE /\ stack' = Compared("Equal")
          /\ NextInstruction
          /\ UNCHANGED <<globals, stdout, rt_errors>>

OpGreater ==
  /\ Dispatching("Greater")
  /\ IF Len(stack) < 2 THEN VMPanic
     ELSE /\ stack' = Compared("Greater")
          /\ NextInstruction
          /\ UNCHANGED <<globals, stdout, rt_errors>>

OpLess ==
  /\ Dispatching("Less")
  /\ IF Len(stack) < 2 THEN VMPanic
     ELSE /\ stack' = Compared("Less")
          /\ NextInstruction
          /\ UNCHANGED <<globals, stdout, rt_errors>>

OpPrint ==
  /\ Dispatching("Print")
  /\ IF stack = <<>> THEN VMPanic
     ELSE /\ stdout' = Append(stdout, Last(stack))
          /\ stack' = Front(stack)
          /\ NextInstruction
          /\ UNCHANGED <<globals, rt_errors>>

\* self.stack.pop(); without unwrap: nothing happens on an empty stack
OpPop ==
  /\ Dispatching("Pop")
  /\ stack' = IF stack = <<>> THEN stack ELSE Front(stack)
  /\ NextInstruction
  /\ UNCHANGED <<globals, stdout, rt_errors>>

\* HashMap::insert
Insert(map, name, value) ==
  [n \in DOMAIN map \cup {name} |-> IF n = name THEN value ELSE map[n]]

OpDefineGlobal ==
  /\ Dispatching("DefineGlobal")
  /\ IF stack = <<>> THEN VMPanic
     ELSE /\ globals' = Insert(globals, chunks[index + 1].name, Last(stack))
          /\ stack' = Front(stack)
          /\ NextInstruction
          /\ UNCHANGED <<stdout, rt_errors>>

\* format!("Undefined variable '{}'", name)
UndefinedVariable(name) == [msg |-> "Undefined variable", name |-> name]

OpGetGlobal ==
  /\ Dispatching("GetGlobal")
  /\ IF chunks[index + 1].name \in DOMAIN globals
       THEN /\ stack' = Append(stack, globals[chunks[index + 1].name])
            /\ NextInstruction
            /\ UNCHANGED <<globals, stdout, rt_errors>>
       ELSE /\ runtime_error(UndefinedVariable(chunks[index + 1].name))
            /\ Return("Runtime")
            /\ UNCHANGED <<stack, globals, stdout>>

\* OpSetGlobal without the contains_key test: an unbound name gets bound
OpSetGlobal_NoBoundCheck ==
  /\ Dispatching("SetGlobal")
  /\ IF stack = <<>> THEN VMPanic
     ELSE /\ globals' = Insert(globals, chunks[index + 1].name, Last(stack))
          /\ NextInstruction
          /\ UNCHANGED <<stack, stdout, rt_errors>>

\* OpSetGlobal popping the assigned value, as DefineGlobal does
OpSetGlobal_Pops ==
  /\ Dispatching("SetGlobal")
  /\ IF chunks[index + 1].name \in DOMAIN globals
       THEN IF stack = <<>> THEN VMPanic
            ELSE /\ globals' = Insert(globals, chunks[index + 1].name,
                                      Last(stack))
                 /\ stack' = Front(stack)
                 /\ NextInstruction
                 /\ UNCHANGED <<stdout, rt_errors>>
       ELSE /\ runtime_error(UndefinedVariable(chunks[index + 1].name))
            /\ Return("Runtime")
            /\ UNCHANGED <<stack, globals, stdout>>

OpSetGlobal ==
  /\ Dispatching("SetGlobal")
  /\ IF chunks[index + 1].name \in DOMAIN globals
       THEN IF stack = <<>> THEN VMPanic
            ELSE /\ globals' = Insert(globals, chunks[index + 1].name,
                                      Last(stack))
                 /\ NextInstruction
                 /\ UNCHANGED <<stack, stdout, rt_errors>>
       ELSE /\ runtime_error(UndefinedVariable(chunks[index + 1].name))
            /\ Return("Runtime")
            /\ UNCHANGED <<stack, globals, stdout>>

\* the loop condition fails: run() returns Ok(())
RunEnd ==
  /\ pc = "running"
  /\ index >= Len(chunks)
  /\ Return("Ok")
  /\ UNCHANGED <<stack, globals, stdout, rt_errors>>

Step ==
  \/ OpConstant
  \/ OpReturn
  \/ OpNegate
  \/ OpArith
  \/ OpNil
  \/ OpTrue
  \/ OpFalse
  \/ OpNot
  \/ OpEqual
  \/ OpGreater
  \/ OpLess
  \/ OpPrint
  \/ OpPop
  \/ OpDefineGlobal
  \/ OpGetGlobal
  \/ OpSetGlobal
  \/ RunEnd

Next ==
  \/ \E source \in Sources : Interpret(source)
  \/ Step

Spec == Init /\ [][Next]_vars

(***************************************************************************)
(* Expression programs: one interpret call per VM on a print statement     *)
(* built from literals, binary operators, unary minus and parentheses      *)
(***************************************************************************)
\* number of interpret calls made on one VM in SpecExpr
MaxExprCalls == 1

\* source texts of literals
LitSeven == <<"7">>

LitTwo == <<"2">>

LitThree == <<"3">>

LitStrA == <<"\"", "a", "\"">>

LitStrB == <<"\"", "b", "\"">>

\* source texts of the binary operators
ArithTexts == {<<"+">>, <<"-">>, <<"*">>, <<"/">>}

ComparisonTexts == {<<"<">>, <<">">>, <<"<", "=">>, <<">", "=">>}

EqualityTexts == {<<"=", "=">>, <<"!", "=">>}

BinaryTexts == ArithTexts \cup ComparisonTexts \cup EqualityTexts

\* a op b
Bin(a, op, b) == a \o <<" ">> \o op \o <<" ">> \o b

\* ( e )
Paren(e) == <<"(", " ">> \o e \o <<" ", ")">>

\* - e
Neg(e) == <<"-", " ">> \o e

\* print e ;
PrintOf(e) == KW_print \o <<" ">> \o e \o <<" ", ";">>

\* 7 op1 2 op2 3
Chain(op1, op2) == Bin(Bin(LitSeven, op1, LitTwo), op2, LitThree)

\* 7 op1 ( 2 op2 3 )
ChainParenRight(op1, op2) ==
  Bin(LitSeven, op1, Paren(Bin(LitTwo, op2, LitThree)))

\* ( 7 op1 2 ) op2 3
ChainParenLeft(op1, op2) ==
  Bin(Paren(Bin(LitSeven, op1, LitTwo)), op2, LitThree)

\* pairs of operand texts for the comparison operators
OperandPairs ==
  {<<LitSeven, LitTwo>>, <<LitTwo, LitSeven>>, <<LitTwo, LitTwo>>,
   <<KW_nil, LitTwo>>, <<LitTwo, KW_true>>, <<KW_false, KW_true>>,
   <<LitStrA, LitStrB>>}

\* "a"+"b"+"c"+"d"
SrcStringChain ==
  <<"\"", "a", "\"", "+", "\"", "b", "\"", "+", "\"", "c", "\"", "+", "\"",
    "d", "\"">>

\* 10 + 20 * 30
SrcPrecedenceBare ==
  <<"1", "0", " ", "+", " ", "2", "0", " ", "*", " ", "3", "0">>

\* print 10 + 20 * 30 ;
SrcPrecedence ==
  <<"p", "r", "i", "n", "t", " ", "1", "0", " ", "+", " ", "2", "0", " ",
    "*", " ", "3", "0", " ", ";">>

\* print (10 + 20) * 30 ;
SrcGrouping ==
  <<"p", "r", "i", "n", "t", " ", "(", "1", "0", " ", "+", " ", "2", "0",
    ")", " ", "*", " ", "3", "0", " ", ";">>

\* var a = 1 ; var b = 2 ; a = b = 3 ; print a ; print b ;
SrcNestedAssign ==
  <<"v", "a", "r", " ", "a", " ", "=", " ", "1", " ", ";", " ", "v", "a",
    "r", " ", "b", " ", "=", " ", "2", " ", ";", " ", "a", " ", "=", " ",
    "b", " ", "=", " ", "3", " ", ";", " ", "p", "r", "i", "n", "t", " ",
    "a", " ", ";", " ", "p", "r", "i", "n", "t", " ", "b", " ", ";">>

ExprSources ==
  {PrintOf(Chain(op1, op2)) : op1 \in ArithTexts, op2 \in ArithTexts}
    \cup {PrintOf(ChainParenRight(op1, op2)) :
            op1 \in ArithTexts, op2 \in ArithTexts}
    \cup {PrintOf(ChainParenLeft(op1, op2)) :
            op1 \in ArithTexts, op2 \in ArithTexts}
    \cup {PrintOf(Bin(Neg(LitSeven), op, LitTwo)) : op \in BinaryTexts}
    \cup {PrintOf(Bin(LitSeven, op, Neg(LitTwo))) : op \in ArithTexts}
    \cup {PrintOf(Chain(op1, op2)) :
            op1 \in ComparisonTexts, op2 \in ComparisonTexts}
    \cup {PrintOf(Chain(op1, op2)) :
            op1 \in EqualityTexts, op2 \in EqualityTexts}
    \cup {PrintOf(Bin(pair[1], op, pair[2])) :
            pair \in OperandPairs, op \in ComparisonTexts \cup EqualityTexts}
    \cup {PrintOf(SrcStringChain), SrcPrecedenceBare, SrcPrecedence,
          SrcGrouping, SrcNestedAssign, SrcArith}

\* VM::interpret, called at most MaxExprCalls times
InterpretExpr(source) ==
  /\ Len(inputs) < MaxExprCalls
  /\ Interpret(source)

NextExpr ==
  \/ \E source \in ExprSources : InterpretExpr(source)
  \/ Step

SpecExpr == Init /\ [][NextExpr]_vars

(***************************************************************************)
(* Scanner on its own: Scanner::new followed by scan_tokens, one scan_token *)
(* call per step (scanner.rs:97-109 and the tests of scanner.rs:450-478)   *)
(***************************************************************************)
\* 10.23    + 20.6
ScanAddNumbers ==
  <<"1", "0", ".", "2", "3", " ", " ", " ", " ", "+", " ", "2", "0", ".",
    "6">>

\* var x = 10;
ScanVarDecl ==
  <<"v", "a", "r", " ", "x", " ", "=", " ", "1", "0", ";">>

\* "hello"
ScanString ==
  <<"\"", "h", "e", "l", "l", "o", "\"">>

\* 10 <= 20
ScanRelational ==
  <<"1", "0", " ", "<", "=", " ", "2", "0">>

\* for while print return or nil
ScanKeywords ==
  <<"f", "o", "r", " ", "w", "h", "i", "l", "e", " ", "p", "r", "i", "n",
    "t", " ", "r", "e", "t", "u", "r", "n", " ", "o", "r", " ", "n", "i",
    "l">>

\* 10\n20\n30
ScanMultiline ==
  <<"1", "0", "\n", "2", "0", "\n", "3", "0">>

\* +1
ScanPlusOne ==
  <<"+", "1">>

\* variable = 1;
ScanVariable ==
  <<"v", "a", "r", "i", "a", "b", "l", "e", " ", "=", " ", "1", ";">>

\* format (1)
ScanFormat ==
  <<"f", "o", "r", "m", "a", "t", " ", "(", "1", ")">>

\* x = nil
ScanNilAtEnd ==
  <<"x", " ", "=", " ", "n", "i", "l">>

\* a_b ;
ScanSnake ==
  <<"a", "_", "b", " ", ";">>

\* ab+1;
ScanIdentPlus ==
  <<"a", "b", "+", "1", ";">>

\* 1 // c\n2
ScanComment ==
  <<"1", " ", "/", "/", " ", "c", "\n", "2">>

\* 1 / /c\n2
ScanCommentSpaced ==
  <<"1", " ", "/", " ", "/", "c", "\n", "2">>

\* 1/2
ScanDivide ==
  <<"1", "/", "2">>

\* 1 / 2 
ScanDivideSpaced ==
  <<"1", " ", "/", " ", "2", " ">>

\* 1.
ScanTrailingDot ==
  <<"1", ".">>

\* 1 /
ScanTrailingSlash ==
  <<"1", " ", "/">>

\* 1 @ 2
ScanUnknown ==
  <<"1", " ", "@", " ", "2">>

\* print xy;
ScanPrintIdent ==
  <<"p", "r", "i", "n", "t", " ", "x", "y", ";">>

\* nil
ScanKeywordAlone ==
  <<"n", "i", "l">>

\* orchid 
ScanOrchid ==
  <<"o", "r", "c", "h", "i", "d", " ">>

ScanSources ==
  {ScanAddNumbers, ScanVarDecl, ScanString, ScanRelational, ScanKeywords,
   ScanMultiline, ScanPlusOne, ScanVariable, ScanFormat, ScanNilAtEnd,
   ScanSnake, ScanIdentPlus, ScanComment, ScanCommentSpaced, ScanDivide,
   ScanDivideSpaced, ScanTrailingDot, ScanTrailingSlash, ScanUnknown,
   ScanPrintIdent, ScanKeywordAlone, ScanOrchid}

\* Scanner::new(source), as test_scanner builds it
NewScan(source) ==
  /\ pc = "ready"
  /\ inputs = <<>>
  /\ scanner = DefaultScanner
  /\ scanner' = NewScanner(source)
  /\ tokens' = <<>>
  /\ pc' = "scanning"
  /\ UNCHANGED <<chunks, index, stack, globals, compiler, compiled, result,
                 stdout, rt_errors, inputs>>

\* one iteration of the loop of scan_tokens: the token is pushed, an Error
\* token panics, an Eof token ends the loop; a panic inside scan_token
\* unwinds before anything is pushed
ScanToken ==
  /\ pc = "scanning"
  /\ LET After(r) ==
           IF r.panic
             THEN /\ pc' = "panicked"
                  /\ UNCHANGED <<scanner, tokens>>
             ELSE /\ scanner' = r.s
                  /\ tokens' = Append(tokens, r.tok)
                  /\ pc' = IF r.tok.type = "Error" THEN "panicked"
                           ELSE IF r.tok.type = "Eof" THEN "scanned"
                           ELSE "scanning"
     IN  After(scan_token(scanner))
  /\ UNCHANGED <<chunks, index, stack, globals, compiler, compiled, result,
                 stdout, rt_errors, inputs>>

NextScan ==
  \/ \E source \in ScanSources : NewScan(source)
  \/ ScanToken

SpecScan == Init /\ [][NextScan]_vars

(***************************************************************************)
(* Compiler::compile step by step: one step per iteration of its           *)
(* declaration loop and per iteration of the loop of synchronize           *)
(***************************************************************************)
\* @ @ @
ErrUnknownChars ==
  <<"@", " ", "@", " ", "@">>

\* ) ) ;
ErrClosers ==
  <<")", " ", ")", " ", ";">>

\* + + +
ErrOperators ==
  <<"+", " ", "+", " ", "+">>

\* ; ; ;
ErrSemicolons ==
  <<";", " ", ";", " ", ";">>

\* print ; var ; 1 1 ;
ErrStatements ==
  <<"p", "r", "i", "n", "t", " ", ";", " ", "v", "a", "r", " ", ";", " ",
    "1", " ", "1", " ", ";">>

\* 1 1 print 2 ;
ErrBeforeKeyword ==
  <<"1", " ", "1", " ", "p", "r", "i", "n", "t", " ", "2", " ", ";">>

\* var var var
ErrVarChain ==
  <<"v", "a", "r", " ", "v", "a", "r", " ", "v", "a", "r">>

\* ( ( (
ErrOpenParens ==
  <<"(", " ", "(", " ", "(">>

\* { } { }
ErrBraces ==
  <<"{", " ", "}", " ", "{", " ", "}">>

\* a + = c ;
ErrAssignOperator ==
  <<"a", " ", "+", " ", "=", " ", "c", " ", ";">>

\* 1 + 2
ErrBareExpression ==
  <<"1", " ", "+", " ", "2">>

\* sources made only of errors, or ending in one
ErrorSources ==
  {ErrUnknownChars, ErrClosers, ErrOperators, ErrSemicolons,
   ErrStatements, ErrBeforeKeyword, ErrVarChain, ErrOpenParens, ErrBraces,
   ErrAssignOperator, ErrBareExpression}

\* -10.23
TestUnaryMinus ==
  <<"-", "1", "0", ".", "2", "3">>

\* (10 + 20) * 30
TestGrouping ==
  <<"(", "1", "0", " ", "+", " ", "2", "0", ")", " ", "*", " ", "3", "0">>

\* 10 >= 20
TestGteFalse ==
  <<"1", "0", " ", ">", "=", " ", "2", "0">>

\* 10 != 10
TestNeTrue ==
  <<"1", "0", " ", "!", "=", " ", "1", "0">>

\* "hello" + "world" + "from" + "rust"
TestStringConcat ==
  <<"\"", "h", "e", "l", "l", "o", "\"", " ", "+", " ", "\"", "w", "o", "r",
    "l", "d", "\"", " ", "+", " ", "\"", "f", "r", "o", "m", "\"", " ", "+",
    " ", "\"", "r", "u", "s", "t", "\"">>

\* sources of the tests of compiler.rs:606-620, which unwrap the result
CompilerTests ==
  {TestUnaryMinus, SrcPrecedenceBare, TestGrouping, TestGteFalse, TestNeTrue,
   TestStringConcat}

CompileSources == Sources \cup ErrorSources \cup CompilerTests

\* Compiler::compile up to the head of its loop: input, then advance
CompileBegin(source) ==
  /\ pc = "ready"
  /\ inputs = <<>>
  /\ LET Begun(p) ==
           /\ compiler' = p
           /\ pc' = IF p.panicked THEN "panicked" ELSE "compiling"
     IN  Begun(advance([compiler EXCEPT
                          !.scanner = input(compiler.scanner, source)]))
  /\ inputs' = <<source>>
  /\ UNCHANGED <<chunks, index, stack, globals, compiled, result, stdout,
                 rt_errors, scanner, tokens>>

\* one iteration of `while !match(Eof) { declaration() }`, up to the call of
\* synchronize (which first clears panic_mode)
DeclarationStep ==
  /\ pc = "compiling"
  /\ ~check(compiler, "Eof")
  /\ LET Declared(p) ==
           /\ compiler' = IF ~p.panicked /\ p.panic_mode
                            THEN [p EXCEPT !.panic_mode = FALSE]
                            ELSE p
           /\ pc' = IF p.panicked THEN "panicked"
                    ELSE IF p.panic_mode THEN "synchronize"
                    ELSE "compiling"
     IN  Declared(DeclarationBody(compiler))
  /\ UNCHANGED <<chunks, index, stack, globals, compiled, result, stdout,
                 rt_errors, inputs, scanner, tokens>>

\* one iteration of the loop of synchronize: it returns at Eof, after a
\* semicolon and before a statement keyword, and calls advance otherwise
SynchronizeStep ==
  /\ pc = "synchronize"
  /\ LET Iterated(p) ==
           /\ compiler' = p
           /\ pc' = IF SynchronizeReturns(compiler) THEN "compiling"
                    ELSE IF p.panicked THEN "panicked"
                    ELSE "synchronize"
     IN  Iterated(synchronize_iteration(compiler))
  /\ UNCHANGED <<chunks, index, stack, globals, compiled, result, stdout,
                 rt_errors, inputs, scanner, tokens>>

\* the loop of compile ends on the Eof token; end_compiler, then the value
\* compile returns
CompileEnd ==
  /\ pc = "compiling"
  /\ check(compiler, "Eof")
  /\ LET Ended(p) ==
           /\ compiler' = p
           /\ compiled' = IF p.had_error THEN "Err" ELSE "Ok"
     IN  Ended(end_compiler(match(compiler, "Eof")))
  /\ pc' = "compiled"
  /\ UNCHANGED <<chunks, index, stack, globals, result, stdout, rt_errors,
                 inputs, scanner, tokens>>

NextCompile ==
  \/ \E source \in CompileSources : CompileBegin(source)
  \/ DeclarationStep
  \/ SynchronizeStep
  \/ CompileEnd

SpecCompile == Init /\ [][NextCompile]_vars

(***************************************************************************)
(* Claims                                                                  *)
(***************************************************************************)
\* the instruction about to be dispatched by the loop of run()
AtInstruction == pc = "running" /\ index < Len(chunks)

CurrentOp == chunks[index + 1].op

\* run() has returned the Runtime error without moving the pointer
HaltsWithRuntime ==
  /\ pc' = "ready"
  /\ result' = "Runtime"
  /\ index' = index

\* C1: whenever interpret has returned for a source text whose compilation
\* recorded an error, the value it returned is the CompileTime error (not Ok
\* and not Runtime), on a fresh VM and on a reused one.
C1_CompileErrorReturnsCompileTime ==
  (pc = "ready" /\ compiled = "Err") => result = "CompileTime"

\* Negate is dispatched with a top of stack that is not a Number
NegateTypeViolation ==
  /\ AtInstruction
  /\ CurrentOp = "Negate"
  /\ stack # <<>>
  /\ Last(stack).type # "Number"

\* C2: when Negate pops a value that is not a Number, the run ends in
\* Halted-Error: interpret returns the Runtime error and no instruction
\* after the Negate is dispatched.
C2_NegateNonNumberHalts == [][NegateTypeViolation => HaltsWithRuntime]_vars

\* the two operands on top of the stack: `a` below `b`
OperandA == stack[Len(stack) - 1]

OperandB == stack[Len(stack)]

BothOf(type) == OperandA.type = type /\ OperandB.type = type

\* an arithmetic instruction is dispatched with operands that are neither
\* both Numbers nor (for Add) both strings
ArithTypeViolation ==
  /\ AtInstruction
  /\ CurrentOp \in ArithOps
  /\ Len(stack) >= 2
  /\ ~BothOf("Number")
  /\ ~(CurrentOp = "Add" /\ BothOf("String"))

\* C3: when Add, Subtract, Multiply or Divide pops two operands that are
\* neither both Numbers nor (for Add) both strings, the run halts with the
\* Runtime error: interpret returns Runtime, nothing is pushed and nothing
\* is executed afterwards.
C3_ArithTypeViolationHalts ==
  [][ArithTypeViolation =>
       (HaltsWithRuntime /\ Len(stack') <= Len(stack) - 2)]_vars

\* Subtract, Multiply or Divide is dispatched with two strings on top
NonAddOnStrings ==
  /\ AtInstruction
  /\ CurrentOp \in ArithOps \ {"Add"}
  /\ Len(stack) >= 2
  /\ BothOf("String")

\* C4: string concatenation happens only for Add: when Subtract, Multiply
\* or Divide pops two string operands, the VM reports the runtime error and
\* does not push the concatenated string.
C4_ConcatenationOnlyForAdd ==
  [][NonAddOnStrings =>
       /\ Len(rt_errors') = Len(rt_errors) + 1
       /\ stack' # Append(SubSeq(stack, 1, Len(stack) - 2),
                          StringOf(OperandA.str \o OperandB.str))]_vars

\* C5: after any runtime failure (reported by Negate, by an arithmetic
\* instruction, or by GetGlobal/SetGlobal on an unbound name) the VM halts
\* immediately: the step that reports it ends the run without moving the
\* instruction pointer, and while a call that has reported a failure is
\* still running, the pointer, the stack and the globals do not change.
C5_RuntimeFailureHaltsImmediately ==
  [][/\ Len(rt_errors') > Len(rt_errors) =>
          (pc' = "ready" /\ result' = "Runtime" /\ index' = index)
     /\ (pc = "running" /\ rt_errors # <<>>) =>
          UNCHANGED <<index, stack, globals>>]_vars

\* C6: Compiler.compile returns a value for every source text, an
\* instruction sequence or the CompileTime error, and never aborts with a
\* panic; in particular "var 1;" yields CompileTime.
C6_CompileNeverPanics ==
  /\ ~compiler.panicked
  /\ (inputs # <<>> /\ Last(inputs) = SrcVarNumber) => compiled = "Err"

\* number of operands the instruction takes from the stack
Operands(opname) ==
  CASE opname \in ArithOps \cup {"Equal", "Greater", "Less"} -> 2
    [] opname \in {"Negate", "Not", "Print", "Pop", "DefineGlobal"} -> 1
    [] OTHER -> 0

\* C7: for every instruction sequence produced by a successful compile, the
\* VM never pops an empty operand stack: no instruction is dispatched with
\* fewer values on the stack than it pops, also after an operand-type
\* violation.
C7_NeverPopsEmptyStack ==
  AtInstruction => Operands(CurrentOp) <= Len(stack)

\* C8: Equal, Greater and Less applied to two values of different variants
\* push Bool(false), with no runtime error.
C8_CrossVariantComparisonIsFalse ==
  [][(/\ AtInstruction
      /\ CurrentOp \in {"Equal", "Greater", "Less"}
      /\ Len(stack) >= 2
      /\ OperandA.type # OperandB.type) =>
       /\ stack' = Append(SubSeq(stack, 1, Len(stack) - 2), BoolOf(FALSE))
       /\ rt_errors' = rt_errors
       /\ pc' = "running"]_vars

\* C9: interpreting "var x = 10; print x;" on a fresh VM compiles without
\* error, never aborts, and when the call has returned it returned Ok, the
\* output is 10 and the operand stack is empty.
C9_VarThenPrintOutputsTen ==
  inputs = <<SrcVarPrintTight>> =>
    /\ compiled = "Ok"
    /\ pc # "panicked"
    /\ pc = "ready" =>
         /\ result = "Ok"
         /\ stdout = <<NumberOf(F64(10, 1))>>
         /\ stack = <<>>

\* C10: a global defined by an earlier interpret call stays visible to later
\* calls on the same VM and each call executes the instructions of its own
\* source: after interpret("var x = 1;") followed by interpret("print x;")
\* has returned, it returned Ok and the output is 1.
C10_GlobalVisibleToNextCall ==
  (inputs = <<SrcVarOne, SrcPrintXTight>> /\ pc = "ready") =>
    (result = "Ok" /\ stdout = <<NumberOf(F64(1, 1))>>)

\* C11: compile is a pure function of the source text: on every Compiler a
\* program can hold (fresh, or used for earlier compile calls) compiling a
\* source returns what a fresh Compiler returns for it, the same instruction
\* sequence or the same error.
C11_CompileIsPure ==
  ~compiler.panicked =>
    \A source \in Sources :
      /\ compile(compiler, source).result
           = compile(DefaultParser, source).result
      /\ compile(compiler, source).ops = compile(DefaultParser, source).ops

\* the instruction at the pointer reads or assigns a global that is not bound
UnboundGlobalAccess ==
  /\ AtInstruction
  /\ CurrentOp \in {"GetGlobal", "SetGlobal"}
  /\ chunks[index + 1].name \notin DOMAIN globals

\* C12: GetGlobal(name) and SetGlobal(name) on a name that is not bound make
\* interpret return the Runtime error without a crash, and leave the globals
\* table and the operand stack as they were before the failing instruction.
C12_UnboundGlobalIsRuntimeError ==
  [][UnboundGlobalAccess =>
       /\ pc' = "ready"
       /\ result' = "Runtime"
       /\ globals' = globals
       /\ stack' = stack]_vars

\* interpret has returned Runtime from a SetGlobal on an unbound name, with
\* the assigned value still on the stack
C12_Witness ==
  /\ pc = "ready"
  /\ result = "Runtime"
  /\ index < Len(chunks)
  /\ chunks[index + 1].op = "SetGlobal"
  /\ chunks[index + 1].name \notin DOMAIN globals
  /\ stack # <<>>
  /\ rt_errors = <<UndefinedVariable(chunks[index + 1].name)>>

\* C13: an assignment whose target is the result of a binary expression
\* ("a + b = c;") makes compile fail with CompileTime, without aborting, and
\* the diagnostic reported for it is "Invalid assignment target."
C13_InvalidAssignmentTargetReported ==
  inputs = <<SrcAssignToSum>> =>
    /\ pc # "panicked"
    /\ compiled = "Err"
    /\ \E i \in DOMAIN compiler.stderr :
         compiler.stderr[i].message = "Invalid assignment target."

\* the messages of the diagnostics written so far, in order
Messages(stderr) == [i \in DOMAIN stderr |-> stderr[i].message]

\* C14: panic-mode deduplication. Every declaration that enters panic mode
\* ends with synchronize(), and whenever synchronize() returns panic mode is
\* cleared, so panic mode is off when compile returns; between the error that
\* enters panic mode and the return of synchronize() no further diagnostic is
\* written, also when the skipped tokens contain a lexical Error token, and
\* the first error of the next statement is reported: for "1 1 @ ; + ;" the
\* diagnostics are the missing ';' of the first statement and the missing
\* expression of the second.
C14_PanicModeDeduplication ==
  (inputs # <<>> /\ pc # "panicked") =>
    /\ ~compiler.panic_mode
    /\ inputs = <<SrcSkipsErrorToken>> =>
         Messages(compiler.stderr)
           = <<"Expect ';' after expression.", "Expected expression">>

\* the first Error token the scanner produces from state s (the Eof token
\* when it produces none)
RECURSIVE FirstErrorToken(_)
FirstErrorToken(s) ==
  LET Found(r) ==
        IF r.panic \/ r.tok.type \in {"Error", "Eof"} THEN r.tok
        ELSE FirstErrorToken(r.s)
  IN  Found(scan_token(s))

\* C15: every lexical failure is an Error token that reaches the normal
\* compiler error path: a string with no closing quote gives an Error token
\* carrying "Unterminated string", a character matching no token class gives
\* an Error token carrying "Unknown Token {char}", and compile of a source
\* containing either returns CompileTime (it does not abort).
C15_LexicalErrorsReachCompileError ==
  /\ inputs = <<SrcUnterminated>> =>
       /\ FirstErrorToken(NewScanner(SrcUnterminated)).value
            = ErrorValue("Unterminated string")
       /\ pc # "panicked"
       /\ compiled = "Err"
  /\ inputs = <<SrcVarUnknownChar>> =>
       /\ FirstErrorToken(NewScanner(SrcVarUnknownChar)).value
            = ErrorValue("Unknown Token @")
       /\ pc # "panicked"
       /\ compiled = "Err"

\* the instructions the claims give for a binary operator
ClaimedOps(op) ==
  CASE op = <<"+">> -> <<Op("Add")>>
    [] op = <<"-">> -> <<Op("Subtract")>>
    [] op = <<"*">> -> <<Op("Multiply")>>
    [] op = <<"/">> -> <<Op("Divide")>>
    [] op = <<"<">> -> <<Op("Less")>>
    [] op = <<">">> -> <<Op("Greater")>>
    [] op = <<"=", "=">> -> <<Op("Equal")>>
    [] op = <<">", "=">> -> <<Op("Less"), Op("Not")>>
    [] op = <<"<", "=">> -> <<Op("Greater"), Op("Not")>>
    [] op = <<"!", "=">> -> <<Op("Equal"), Op("Not")>>

\* standard arithmetic: the level of an operator and its value on numbers
StandardLevel(op) == IF op \in {<<"*">>, <<"/">>} THEN 2 ELSE 1

StandardValue(op, x, y) ==
  CASE op = <<"+">> -> FAdd(x, y)
    [] op = <<"-">> -> FSub(x, y)
    [] op = <<"*">> -> FMul(x, y)
    [] op = <<"/">> -> FDiv(x, y)

Seven == F64(7, 1)

Two == F64(2, 1)

Three == F64(3, 1)

PushNumber(num) == <<Constant(NumberOf(num))>>

\* interpret(source) on a fresh VM compiled `print e ;` to the instructions
\* `code` of e followed by Print and Return
CompilesTo(code) ==
  /\ pc # "panicked"
  /\ compiled = "Ok"
  /\ chunks = code \o <<Op("Print"), Op("Return")>>

\* and when the call has returned it returned Ok and printed `value`
PrintsValue(value) ==
  pc = "ready" => (result = "Ok" /\ stdout = <<value>> /\ stack = <<>>)

\* C16: compiled arithmetic follows standard precedence. For 7 op1 2 op2 3
\* the operator of the higher level is applied first and operators of one
\* level from the left; parentheses override this on either side; unary
\* minus applies to its operand before any binary operator does; and
\* "10 + 20 * 30" emits [10, 20, 30, Multiply, Add] (value 610),
\* "(10 + 20) * 30" emits [10, 20, Add, 30, Multiply] (value 900).
C16_StandardPrecedence ==
  /\ \A op1 \in ArithTexts, op2 \in ArithTexts :
       /\ inputs = <<PrintOf(Chain(op1, op2))>> =>
            IF StandardLevel(op2) > StandardLevel(op1)
              THEN /\ CompilesTo(PushNumber(Seven) \o PushNumber(Two)
                                   \o PushNumber(Three) \o ClaimedOps(op2)
                                   \o ClaimedOps(op1))
                   /\ PrintsValue(NumberOf(StandardValue(
                        op1, Seven, StandardValue(op2, Two, Three))))
              ELSE /\ CompilesTo(PushNumber(Seven) \o PushNumber(Two)
                                   \o ClaimedOps(op1) \o PushNumber(Three)
                                   \o ClaimedOps(op2))
                   /\ PrintsValue(NumberOf(StandardValue(
                        op2, StandardValue(op1, Seven, Two), Three)))
       /\ inputs = <<PrintOf(ChainParenRight(op1, op2))>> =>
            /\ CompilesTo(PushNumber(Seven) \o PushNumber(Two)
                            \o PushNumber(Three) \o ClaimedOps(op2)
                            \o ClaimedOps(op1))
            /\ PrintsValue(NumberOf(StandardValue(
                 op1, Seven, StandardValue(op2, Two, Three))))
       /\ inputs = <<PrintOf(ChainParenLeft(op1, op2))>> =>
            /\ CompilesTo(PushNumber(Seven) \o PushNumber(Two)
                            \o ClaimedOps(op1) \o PushNumber(Three)
                            \o ClaimedOps(op2))
            /\ PrintsValue(NumberOf(StandardValue(
                 op2, StandardValue(op1, Seven, Two), Three)))
  /\ \A op \in BinaryTexts :
       inputs = <<PrintOf(Bin(Neg(LitSeven), op, LitTwo))>> =>
         /\ CompilesTo(PushNumber(Seven) \o <<Op("Negate")>>
                         \o PushNumber(Two) \o ClaimedOps(op))
         /\ op \in ArithTexts =>
              PrintsValue(NumberOf(StandardValue(op, FNeg(Seven), Two)))
  /\ \A op \in ArithTexts :
       inputs = <<PrintOf(Bin(LitSeven, op, Neg(LitTwo)))>> =>
         /\ CompilesTo(PushNumber(Seven) \o PushNumber(Two)
                         \o <<Op("Negate")>> \o ClaimedOps(op))
         /\ PrintsValue(NumberOf(StandardValue(op, Seven, FNeg(Two))))
  /\ inputs = <<SrcPrecedence>> =>
       /\ CompilesTo(PushNumber(F64(10, 1)) \o PushNumber(F64(20, 1))
                       \o PushNumber(F64(30, 1))
                       \o <<Op("Multiply"), Op("Add")>>)
       /\ PrintsValue(NumberOf(F64(610, 1)))
  /\ inputs = <<SrcGrouping>> =>
       /\ CompilesTo(PushNumber(F64(10, 1)) \o PushNumber(F64(20, 1))
                       \o <<Op("Add")>> \o PushNumber(F64(30, 1))
                       \o <<Op("Multiply")>>)
       /\ PrintsValue(NumberOf(F64(900, 1)))
  /\ inputs = <<SrcPrecedenceBare>> =>
       SubSeq(compiler.ops, 1, 5)
         = PushNumber(F64(10, 1)) \o PushNumber(F64(20, 1))
             \o PushNumber(F64(30, 1)) \o <<Op("Multiply"), Op("Add")>>

\* "print 7 + 2 * 3 ;" has run: the product was formed first and 13 printed
C16_Witness ==
  /\ inputs = <<PrintOf(Chain(<<"+">>, <<"*">>))>>
  /\ pc = "ready"
  /\ result = "Ok"
  /\ stdout = <<NumberOf(F64(13, 1))>>

\* the sets of binary operators that share a precedence level
PrecedenceLevels ==
  {{<<"+">>, <<"-">>}, {<<"*">>, <<"/">>}, ComparisonTexts, EqualityTexts}

PushString(str) == <<Constant(StringOf(str))>>

\* C17: binary operators of equal precedence are left-associative: for
\* operators op1, op2 of one level "7 op1 2 op2 3" emits
\* [7, 2, op1, 3, op2], for arithmetic operators its value is
\* (7 op1 2) op2 3, and the chain of concatenations "a"+"b"+"c"+"d" emits
\* ["a", "b", Add, "c", Add, "d", Add] and evaluates to "abcd".
C17_LeftAssociative ==
  /\ \A level \in PrecedenceLevels : \A op1 \in level, op2 \in level :
       inputs = <<PrintOf(Chain(op1, op2))>> =>
         /\ CompilesTo(PushNumber(Seven) \o PushNumber(Two)
                         \o ClaimedOps(op1) \o PushNumber(Three)
                         \o ClaimedOps(op2))
         /\ op1 \in ArithTexts =>
              PrintsValue(NumberOf(StandardValue(
                op2, StandardValue(op1, Seven, Two), Three)))
  /\ inputs = <<PrintOf(SrcStringChain)>> =>
       /\ CompilesTo(PushString(<<"a">>) \o PushString(<<"b">>)
                       \o <<Op("Add")>> \o PushString(<<"c">>)
                       \o <<Op("Add")>> \o PushString(<<"d">>)
                       \o <<Op("Add")>>)
       /\ PrintsValue(StringOf(<<"a", "b", "c", "d">>))

\* "print 7 - 2 - 3 ;" has run and printed (7 - 2) - 3 = 2
C17_Witness ==
  /\ inputs = <<PrintOf(Chain(<<"-">>, <<"-">>))>>
  /\ pc = "ready"
  /\ result = "Ok"
  /\ stdout = <<NumberOf(F64(2, 1))>>

\* the value a literal of OperandPairs denotes and the instruction pushing it
LiteralValue(text) ==
  CASE text = LitSeven -> NumberOf(Seven)
    [] text = LitTwo -> NumberOf(Two)
    [] text = KW_nil -> NilValue
    [] text = KW_true -> BoolOf(TRUE)
    [] text = KW_false -> BoolOf(FALSE)
    [] text = LitStrA -> StringOf(<<"a">>)
    [] text = LitStrB -> StringOf(<<"b">>)

PushLiteral(text) ==
  CASE text = KW_nil -> <<Op("Nil")>>
    [] text = KW_true -> <<Op("True")>>
    [] text = KW_false -> <<Op("False")>>
    [] OTHER -> <<Constant(LiteralValue(text))>>

\* the value the claim gives a comparison: `<`, `>` and `==` are what the
\* Less, Greater and Equal instructions compute, the derived operators are
\* the negations of `<`, `>` and `==`
ClaimedComparison(op, a, b) ==
  CASE op = <<"<">> -> Compare("Less", a, b)
    [] op = <<">">> -> Compare("Greater", a, b)
    [] op = <<"=", "=">> -> Compare("Equal", a, b)
    [] op = <<">", "=">> -> ~Compare("Less", a, b)
    [] op = <<"<", "=">> -> ~Compare("Greater", a, b)
    [] op = <<"!", "=">> -> ~Compare("Equal", a, b)

\* C18: derived comparisons are desugared: `a >= b` compiles to the operands
\* followed by [Less, Not], `a <= b` to [Greater, Not] and `a != b` to
\* [Equal, Not] (and `<`, `>`, `==` to Less, Greater, Equal alone), so that
\* for all operand values `a >= b` evaluates to the negation of `a < b`,
\* `a <= b` to the negation of `a > b` and `a != b` to the negation of
\* `a == b`.
C18_DerivedComparisonsDesugared ==
  \A pair \in OperandPairs, op \in ComparisonTexts \cup EqualityTexts :
    inputs = <<PrintOf(Bin(pair[1], op, pair[2]))>> =>
      /\ CompilesTo(PushLiteral(pair[1]) \o PushLiteral(pair[2])
                      \o ClaimedOps(op))
      /\ PrintsValue(BoolOf(ClaimedComparison(
           op, LiteralValue(pair[1]), LiteralValue(pair[2]))))

\* "print 2 >= 2 ;" has run through Less and Not and printed true
C18_Witness ==
  /\ inputs = <<PrintOf(Bin(LitTwo, <<">", "=">>, LitTwo))>>
  /\ chunks[3] = Op("Less")
  /\ chunks[4] = Op("Not")
  /\ pc = "ready"
  /\ result = "Ok"
  /\ stdout = <<BoolOf(TRUE)>>

\* C19: if compilation of the source fails, interpret starts no execution:
\* while the call is in progress no instruction is dispatched, and the
\* operand stack, the globals table and the instruction pointer stay as they
\* were before the call.
C19_FailedCompileStartsNoExecution ==
  [][(pc = "running" /\ compiled = "Err") =>
       /\ ~AtInstruction
       /\ UNCHANGED <<stack, globals, index>>]_vars

\* the instruction at the pointer assigns a bound global the value on top of
\* the stack
SetGlobalOnBound ==
  /\ AtInstruction
  /\ CurrentOp = "SetGlobal"
  /\ chunks[index + 1].name \in DOMAIN globals
  /\ stack # <<>>

\* C20: SetGlobal(name) on a bound name sets the binding to the current
\* top-of-stack value, changes no other binding and leaves the operand stack
\* unchanged; hence the assignment statement is stack-neutral after its
\* trailing Pop and the nested assignment "a = b = 3 ;" binds both names to
\* 3: "var a = 1 ; var b = 2 ; a = b = 3 ; print a ; print b ;" returns Ok
\* with output 3, 3 and an empty stack.
C20_SetGlobalKeepsStack ==
  [][/\ SetGlobalOnBound =>
          /\ globals' = [n \in DOMAIN globals |->
                           IF n = chunks[index + 1].name THEN Last(stack)
                           ELSE globals[n]]
          /\ stack' = stack
          /\ pc' = "running"
     /\ (inputs' = <<SrcNestedAssign>> /\ pc' = "ready") =>
          /\ result' = "Ok"
          /\ stack' = <<>>
          /\ stdout' = <<NumberOf(Three), NumberOf(Three)>>
          /\ globals' = (<<"a">> :> NumberOf(Three))
                          @@ (<<"b">> :> NumberOf(Three))]_vars

\* the nested assignment has run: both names are bound to 3, both prints
\* gave 3 and the stack is empty
C20_Witness ==
  /\ inputs = <<SrcNestedAssign>>
  /\ pc = "ready"
  /\ result = "Ok"
  /\ stack = <<>>
  /\ stdout = <<NumberOf(Three), NumberOf(Three)>>
  /\ globals[<<"a">>] = NumberOf(Three)
  /\ globals[<<"b">>] = NumberOf(Three)

\* C21: execution is strictly sequential. A step of run() that dispatches an
\* instruction either goes on with the pointer advanced by exactly one, or
\* halts with the pointer where it is (or aborts); the run halts
\* successfully exactly when the instruction dispatched is Return, which
\* changes nothing else whatever instructions follow it, or when the pointer
\* has reached the end of the sequence.
C21_StrictlySequential ==
  [][/\ AtInstruction =>
          \/ pc' = "running" /\ index' = index + 1
          \/ /\ pc' = "ready"
             /\ index' = index
             /\ result' = "Ok" <=> CurrentOp = "Return"
          \/ pc' = "panicked"
     /\ (AtInstruction /\ CurrentOp = "Return") =>
          /\ pc' = "ready"
          /\ result' = "Ok"
          /\ UNCHANGED <<index, stack, globals, stdout, chunks>>
     /\ (pc = "running" /\ ~AtInstruction) =>
          /\ pc' = "ready"
          /\ result' = "Ok"
          /\ UNCHANGED <<index, stack, globals, stdout, chunks>>]_vars

\* a run has halted with Ok on a Return that is not the last instruction
C21_Witness ==
  /\ pc = "ready"
  /\ result = "Ok"
  /\ index + 1 < Len(chunks)
  /\ chunks[index + 1].op = "Return"

\* the keywords of the table of Scanner::new
Keywords == UNION {{KeywordTable[c][k] : k \in 1..Len(KeywordTable[c])} :
                   c \in DOMAIN KeywordTable}

\* the characters of the scanned source in the byte range of a token
TokenSlice(tok) == SubSeq(scanner.source, tok.start + 1, tok.start + tok.length)

\* the byte range lies in the source and holds the lexeme the token stands for
CoversLexeme(tok) ==
  LET Covers(slice) ==
        CASE tok.type = "Identifier" -> slice = tok.value.text
          [] tok.type = "Number" ->
               /\ \A k \in 1..Len(slice) : slice[k] \in Digits \cup {"."}
               /\ slice # <<>>
               /\ parse_f64(slice) = tok.value.num
          [] tok.type = "String" ->
               slice = <<"\"">> \o tok.value.text \o <<"\"">>
          [] OTHER ->
               \/ /\ Len(slice) = 1
                  /\ slice[1] \in {"(", ")", "{", "}", ",", ".", "-", "+", ";",
                                   "/", "*", "!", "=", ">", "<"}
                  /\ CharType(slice[1]) = tok.type
               \/ /\ Len(slice) = 2
                  /\ slice[1] \in {"!", "=", ">", "<"}
                  /\ slice[2] = "="
                  /\ RelEqType(slice[1]) = tok.type
               \/ /\ slice \in Keywords
                  /\ KeywordType(slice) = tok.type
  IN  /\ tok.start + tok.length <= Len(scanner.source)
      /\ Covers(TokenSlice(tok))

\* C22: the tokens returned by successive scan_token calls have byte ranges
\* [start, start + length) that do not overlap and increase strictly, and
\* the range of every token before Eof holds exactly the characters of its
\* lexeme
C22_TokenRangesCoverLexemes ==
  \A i \in 1..Len(tokens) :
    /\ tokens[i].type \notin {"Eof", "Error"} => CoversLexeme(tokens[i])
    /\ i < Len(tokens) =>
         tokens[i].start + tokens[i].length <= tokens[i + 1].start

\* a character of a word: a letter, a digit or '_'
IsWordChar(c) == is_ascii_alphanumeric(c) \/ c = "_"

\* the number of word characters of source from the 0-based position i on
RECURSIVE WordLength(_, _)
WordLength(source, i) ==
  IF i < Len(source) /\ IsWordChar(source[i + 1])
    THEN 1 + WordLength(source, i + 1)
    ELSE 0

\* the maximal run of word characters that holds the 0-based position i
RECURSIVE WordStart(_, _)
WordStart(source, i) ==
  IF i > 0 /\ IsWordChar(source[i]) THEN WordStart(source, i - 1) ELSE i

WordAt(source, i) ==
  SubSeq(source, WordStart(source, i) + 1,
         WordStart(source, i) + WordLength(source, WordStart(source, i)))

KeywordTypes == {KeywordType(kw) : kw \in Keywords}

\* C23: a keyword token is returned exactly for a maximal run of word
\* characters that equals a keyword; every other run is returned as one
\* Identifier token that starts where the run starts and holds the whole run
C23_KeywordIffWholeWord ==
  \A i \in 1..Len(tokens) :
    tokens[i].type \in KeywordTypes \cup {"Identifier"} =>
      /\ tokens[i].start = WordStart(scanner.source, tokens[i].start)
      /\ IF WordAt(scanner.source, tokens[i].start) \in Keywords
           THEN tokens[i].type =
                  KeywordType(WordAt(scanner.source, tokens[i].start))
           ELSE /\ tokens[i].type = "Identifier"
                /\ tokens[i].value.text =
                     WordAt(scanner.source, tokens[i].start)

\* the 0-based position k of source lies in a line comment: a `//` stands at
\* or before it with no newline in between
InComment(source, k) ==
  \E j \in 0..k :
    /\ j + 1 < Len(source)
    /\ source[j + 1] = "/" /\ source[j + 2] = "/"
    /\ \A m \in j..k : source[m + 1] # "\n"

\* the positions of the `/` characters that are not part of a comment
SingleSlashes(source) ==
  {k \in 0..(Len(source) - 1) : source[k + 1] = "/" /\ ~InComment(source, k)}

\* the scan of the source has ended, by Eof or by a panic
ScanEnded == pc \in {"scanned", "panicked"} /\ scanner # DefaultScanner

\* C24: a `//` line comment produces no token (no Comment token, no word,
\* number or string token that starts inside the comment, no Slash for its
\* two characters), and every `/` outside a comment is scanned as Slash
C24_CommentsProduceNoToken ==
  /\ \A i \in 1..Len(tokens) :
       /\ tokens[i].type # "Comment"
       /\ tokens[i].type \in KeywordTypes \cup {"Identifier", "Number", "String"}
            => ~InComment(scanner.source, tokens[i].start)
  /\ ScanEnded =>
       Cardinality({i \in 1..Len(tokens) : tokens[i].type = "Slash"})
         = Cardinality(SingleSlashes(scanner.source))

Whitespace == {" ", "\r", "\t", "\n"}

\* the type and payload of the returned tokens, in order
TokenKinds == [i \in 1..Len(tokens) |-> <<tokens[i].type, tokens[i].value>>]

\* C25: when scan_token has returned an identifier or a keyword, the cursor
\* has not moved over any character after the word other than whitespace,
\* so the character that follows the word is still to be scanned; and
\* "var x = 10;" scans to Var, Identifier(x), Equal, Number(10), Semicolon,
\* Eof
C25_WordConsumesOnlyItself ==
  /\ (/\ tokens # <<>>
      /\ tokens[Len(tokens)].type \in KeywordTypes \cup {"Identifier"})
       => \A k \in (tokens[Len(tokens)].start + tokens[Len(tokens)].length)
                     ..(scanner.current - 1) :
            k < Len(scanner.source) => scanner.source[k + 1] \in Whitespace
  /\ (pc = "scanned" /\ scanner.source = ScanVarDecl)
       => TokenKinds = << <<"Var", NoValue>>,
                          <<"Identifier", IdentifierValue(<<"x">>)>>,
                          <<"Equal", NoValue>>,
                          <<"Number", NumberValue(F64(10, 1))>>,
                          <<"Semicolon", NoValue>>,
                          <<"Eof", NoValue>> >>

\* C27: no scan_token call reads the source at an index >= its length
\* (which panics): every lookahead stays inside the source or yields the
\* '\0' sentinel
C27_NoOutOfBoundsRead ==
  pc = "scanning" => ~scan_token(scanner).panic

\* C26: the next scan_token call returns a token (it does not panic) and,
\* unless the token is Eof, leaves the cursor at least one character further;
\* once Eof has been returned the next call returns Eof again; so at most
\* source.len() calls come before the first Eof
C26_EofAfterFinitelyManyCalls ==
  LET Progress(r) ==
        /\ ~r.panic
        /\ r.tok.type # "Eof" => r.s.current > scanner.current
      Sticky(r) == ~r.panic /\ r.tok.type = "Eof"
  IN  /\ pc = "scanning" => Progress(scan_token(scanner))
      /\ pc = "scanned" => Sticky(scan_token(scanner))
      /\ pc \in {"scanning", "scanned"}
           => Len(tokens) <= Len(scanner.source) + 1

\* from parser p to parser q at least one token was consumed, the Eof token
\* was reached, or the call was aborted by a panic
Consumes(p, q) ==
  \/ q.panicked
  \/ q.scanner.current > p.scanner.current
  \/ p.current.type # "Eof" /\ q.current.type = "Eof"

\* C28: compile terminates: every iteration of its declaration loop and
\* every iteration of the loop of synchronize that goes on consumes at least
\* one token or reaches Eof (or the call is aborted), and the cursor of the
\* scanner never passes the end of the source by more than one
C28_CompileTerminates ==
  /\ (pc = "compiling" /\ ~check(compiler, "Eof"))
       => Consumes(compiler, DeclarationBody(compiler))
  /\ (pc = "synchronize" /\ ~SynchronizeReturns(compiler))
       => Consumes(compiler, synchronize_iteration(compiler))
  /\ pc \in {"compiling", "synchronize", "compiled"}
       => compiler.scanner.current <= Len(compiler.scanner.source) + 1

\* compile has returned on a source made only of unknown characters, after
\* several declarations that each ended in synchronize
C28_Witness ==
  /\ pc = "compiled" /\ compiled = "Err"
  /\ inputs = <<ErrUnknownChars>>
  /\ Len(compiler.stderr) >= 2

\* C29: compile returns Ok on a source that is one expression without a
\* terminating `;`, as the tests of compiler.rs unwrap it: no panic, no
\* error, no diagnostic
C29_BareExpressionCompiles ==
  (pc \in {"compiled", "panicked"} /\ inputs # <<>>
     /\ inputs[1] \in CompilerTests)
    => /\ pc = "compiled"
       /\ compiled = "Ok"
       /\ compiler.stderr = <<>>

\* C30: no unreachable!() arm of the parser is reached: the infix loop of
\* parse_precedence only meets Binary rules, binary() only one of its ten
\* operators as previous token, unary() only Minus or Bang, literal() only
\* False, Nil or True
C30_UnreachableArmsNeverReached ==
  ~compiler.unreachable

\* C31: the error flags of the parser during a compilation: had_error never
\* goes from true back to false; panic_mode implies had_error; had_error
\* implies that at least one diagnostic was written; and compile returns
\* the CompileTime error exactly when had_error is true at the end
C31_ErrorFlagInvariants ==
  /\ [](/\ compiler.panic_mode => compiler.had_error
        /\ compiler.had_error => Len(compiler.stderr) >= 1
        /\ pc = "compiled" => (compiled = "Err" <=> compiler.had_error))
  /\ [][compiler.had_error => compiler'.had_error]_vars

\* compile has returned the error after two reported errors, each followed
\* by synchronize
C31_Witness ==
  /\ pc = "compiled" /\ compiled = "Err"
  /\ compiler.had_error /\ ~compiler.panic_mode
  /\ Len(compiler.stderr) = 2

====
